---- MODULE Spec2Model ----
(***************************************************************************)
(* UnisportAI scraping pipelines.                                          *)
(*                                                                         *)
(* Part 1: .scraper/scrape_sportangebote.py -- main() as a sequence of     *)
(* page fetches and storage calls against the tables sportangebote,        *)
(* sportkurse, trainer, kurs_trainer, kurs_termine, etl_runs, together     *)
(* with the out-of-band writers of kurs_termine.canceled, trainer.rating   *)
(* and unisport_locations.                                                 *)
(*                                                                         *)
(* Part 2: .scraper/extract_locations_from_html.py -- the marker / menu    *)
(* merge of main() with fuzzy_match_name.                                  *)
(***************************************************************************)
EXTENDS Integers, Sequences, FiniteSets, Bags, TLC

\* ------------------------------------------------------------------------
\* Bounds of the model
\* ------------------------------------------------------------------------
MaxRuns == 2

NULL == "NULL"

\* Offer pages of the index page (href -> display name).
Hrefs == {"o1", "o2"}
OfferName(h) == IF h = "o1" THEN "Boxen" ELSE "Yoga"

Kursnrs == {"k1", "k2"}

\* Instructor texts (td.bs_skl) as character sequences.
Leitungen == { <<>>, <<"A">>, <<"A", ",", " ", "B">>, <<"A", ",", "A">> }

\* Start timestamps and location texts of the rows of a dates page.
StartTimes == {"t1", "t2"}
LocationNames == { <<"X">>, <<"Y">> }
OrtTexts == LocationNames \cup { <<>> }
\* Python's None in a column that otherwise holds a text.
NoText == << NULL >>

\* Rating written by the scraper, and a rating set by somebody else.
DefaultRating == 3
OtherRating == DefaultRating + 2

\* ------------------------------------------------------------------------
\* Sequence helpers
\* ------------------------------------------------------------------------
Range(s) == { s[i] : i \in 1..Len(s) }

SeqsUpTo(S, n) == UNION { [1..k -> S] : k \in 0..n }

RECURSIVE Flatten(_)
Flatten(ss) == IF ss = <<>> THEN <<>> ELSE Head(ss) \o Flatten(Tail(ss))

\* ------------------------------------------------------------------------
\* Text helpers (str.strip, str.split(","))
\* ------------------------------------------------------------------------
RECURSIVE LStrip(_)
LStrip(s) == IF s # <<>> /\ Head(s) = " " THEN LStrip(Tail(s)) ELSE s

RECURSIVE RStrip(_)
RStrip(s) ==
    IF s # <<>> /\ s[Len(s)] = " " THEN RStrip(SubSeq(s, 1, Len(s) - 1)) ELSE s

Strip(s) == RStrip(LStrip(s))

\* str.split(","): the parts between commas; "" splits to [""].
RECURSIVE SplitComma(_)
SplitComma(s) ==
    IF \A i \in 1..Len(s) : s[i] # ","
    THEN << s >>
    ELSE LET i == CHOOSE j \in 1..Len(s) :
                      s[j] = "," /\ \A m \in 1..(j - 1) : s[m] # ","
         IN  << SubSeq(s, 1, i - 1) >> \o SplitComma(SubSeq(s, i + 1, Len(s)))

SelectNonEmpty(ss) == SelectSeq(ss, LAMBDA x : x # <<>>)

StripAll(ss) == [ i \in 1..Len(ss) |-> Strip(ss[i]) ]

\* extract_trainer_names(leitung)
extract_trainer_names(leitung) ==
    IF leitung = <<>> \/ Strip(leitung) = <<>>
    THEN <<>>
    ELSE SelectNonEmpty(StripAll(SplitComma(leitung)))

\* ------------------------------------------------------------------------
\* The scraped site: what the pages show at one point in time
\* ------------------------------------------------------------------------
\* One row of table.bs_kurse on an offer page.
CourseTableRows == [ kursnr : Kursnrs, leitung : Leitungen, zeitraum : BOOLEAN ]

\* One row of table.bs_kurse on a dates page, after the date and time cells
\* were parsed: the start timestamp and the text of the location cell.
DateTableRows == [ start_time : StartTimes, ort : OrtTexts ]

CourseRow(k, l, z) == [ kursnr |-> k, leitung |-> l, zeitraum |-> z ]
DateRow(t, o) == [ start_time |-> t, ort |-> o ]

\* The site the variations start from: two offers with one course each.
BaseSnapshot ==
    [ offers  |-> << "o1", "o2" >>,
      meta    |-> [ h \in Hrefs |-> NULL ],
      courses |-> [ h \in Hrefs |->
                      IF h = "o1" THEN << CourseRow("k1", <<"A">>, TRUE) >>
                      ELSE << CourseRow("k2", <<>>, TRUE) >> ],
      dates   |-> [ k \in Kursnrs |->
                      IF k = "k1" THEN << DateRow("t1", <<"X">>) >> ELSE <<>> ] ]

\* Course tables of the two offer pages: no row, any instructor text, a course
\* without a dates link, the same kursnr listed under both offers, a row
\* without a course number before the row of a course.
CoursePagesO1 == { <<>> } \cup { << CourseRow("k1", l, TRUE) >> : l \in Leitungen }
CoursePagesO2 == { <<>>,
                   << CourseRow("k2", <<>>, TRUE) >>,
                   << CourseRow("k2", <<"A">>, FALSE) >>,
                   << CourseRow("k1", <<>>, TRUE) >>,
                   << CourseRow("", <<"B">>, TRUE), CourseRow("k2", <<>>, TRUE) >> }

\* Dates pages of the two courses.
DatePagesK1 == { <<>>,
                 << DateRow("t1", <<"X">>) >>,
                 << DateRow("t1", <<"Y">>) >>,
                 << DateRow("t1", <<>>) >>,
                 << DateRow("t2", <<"X">>) >>,
                 << DateRow("t1", <<"X">>), DateRow("t1", <<"Y">>) >> }
DatePagesK2 == { <<>>, << DateRow("t1", <<"X">>) >>, << DateRow("t1", <<"Y">>) >> }

CourseSnapshots ==
    { [ BaseSnapshot EXCEPT !.courses = [ h \in Hrefs |-> IF h = "o1" THEN c1 ELSE c2 ] ] :
        c1 \in CoursePagesO1, c2 \in CoursePagesO2 }

DateSnapshots ==
    { [ BaseSnapshot EXCEPT !.dates = [ k \in Kursnrs |-> IF k = "k1" THEN d1 ELSE d2 ] ] :
        d1 \in DatePagesK1, d2 \in DatePagesK2 }

MetaSnapshots ==
    { [ BaseSnapshot EXCEPT !.meta = [ h \in Hrefs |-> IF h = "o1" THEN m ELSE NULL ] ] :
        m \in {NULL, "img"} }

\* A site that differs from the base in one course table, one dates page or
\* the picture of one offer.
MixedSnapshots ==
    { x \in CourseSnapshots :
        /\ x.courses["o1"] \in { <<>>, << CourseRow("k1", <<"A">>, TRUE) >>,
                                 << CourseRow("k1", <<"A", ",", " ", "B">>, TRUE) >> }
        /\ x.courses["o2"] \in { << CourseRow("k2", <<>>, TRUE) >>,
                                 << CourseRow("k2", <<"A">>, FALSE) >> } }
    \cup
    { x \in DateSnapshots :
        /\ x.dates["k1"] \in { <<>>, << DateRow("t1", <<"X">>) >>,
                               << DateRow("t1", <<"Y">>) >> }
        /\ x.dates["k2"] \in { <<>>, << DateRow("t1", <<"X">>) >> } }
    \cup MetaSnapshots

Snapshots == CourseSnapshots \cup DateSnapshots \cup MetaSnapshots

\* Sites in which a key occurs twice or comes back with other values: the
\* same kursnr under both offers, a course that moved to the other offer, two
\* rows of a dates page with the same start, a session at another place.
KeySnapshots ==
    { BaseSnapshot,
      [ BaseSnapshot EXCEPT !.courses["o2"] = << CourseRow("k1", <<>>, TRUE) >> ],
      [ BaseSnapshot EXCEPT !.courses["o1"] = <<>>,
                            !.courses["o2"] = << CourseRow("k1", <<>>, TRUE) >> ],
      [ BaseSnapshot EXCEPT !.dates["k1"] =
                                << DateRow("t1", <<"X">>), DateRow("t1", <<"Y">>) >> ],
      [ BaseSnapshot EXCEPT !.dates["k1"] = << DateRow("t1", <<"Y">>) >> ],
      [ BaseSnapshot EXCEPT !.meta["o1"] = "img" ] }

\* ------------------------------------------------------------------------
\* Storage collaborator: upsert by natural key (PostgREST merge-duplicates)
\* ------------------------------------------------------------------------
KeyOf(row, keys) == [ k \in keys |-> row[k] ]

\* Two rows of one batch with the same conflict key: the statement is
\* rejected ("ON CONFLICT DO UPDATE command cannot affect row a second time").
HasDupKeys(rows, keys) ==
    \E i, j \in 1..Len(rows) : i < j /\ KeyOf(rows[i], keys) = KeyOf(rows[j], keys)

InsertRow(table, row, keys, defaults) ==
    table \cup
    { [ f \in DOMAIN defaults |-> IF f \in DOMAIN row THEN row[f] ELSE defaults[f] ] }

\* A row with an existing key is updated in place (only the columns given),
\* a new key inserts a row whose other columns take the column default.
UpsertRow(table, row, keys, defaults) ==
    IF \E r \in table : KeyOf(r, keys) = KeyOf(row, keys)
    THEN { IF KeyOf(r, keys) = KeyOf(row, keys)
           THEN [ f \in DOMAIN r |-> IF f \in DOMAIN row THEN row[f] ELSE r[f] ]
           ELSE r : r \in table }
    ELSE table \cup
         { [ f \in DOMAIN defaults |-> IF f \in DOMAIN row THEN row[f] ELSE defaults[f] ] }

RECURSIVE Upsert(_, _, _, _)
Upsert(table, rows, keys, defaults) ==
    IF rows = <<>> THEN table
    ELSE Upsert(UpsertRow(table, Head(rows), keys, defaults), Tail(rows), keys, defaults)

OfferDefaults   == [ href |-> NULL, name |-> NULL, image_url |-> NULL ]
CourseDefaults  == [ kursnr |-> NULL, offer_href |-> NULL, zeitraum_href |-> NULL ]
TrainerDefaults == [ name |-> NoText, rating |-> 0 ]
TerminDefaults  == [ kursnr |-> NULL, start_time |-> NULL,
                     location_name |-> NoText, canceled |-> FALSE ]

RECURSIVE SeqToBag(_)
SeqToBag(rows) ==
    IF rows = <<>> THEN EmptyBag ELSE SetToBag({Head(rows)}) (+) SeqToBag(Tail(rows))

DeleteNothing(bag, k) == bag
DeleteAnyLink(bag, k) == EmptyBag

\* delete().eq("kursnr", k) on a bag of rows
DeleteEq(bag, k) == [ r \in { x \in DOMAIN bag : x.kursnr # k } |-> bag[r] ]

\* ------------------------------------------------------------------------
\* Extractors
\* ------------------------------------------------------------------------
ZeitraumHref(kursnr) == IF kursnr = "k1" THEN "z1" ELSE "z2"
KursnrOfHref(z) == IF z = "z1" THEN "k1" ELSE "k2"

\* extract_courses_for_offer(offer): one course_data dict per table row that
\* has a kursnr; the keys starting with "_" are the temporary fields.
CourseData(href, row) ==
    [ offer_href    |-> href,
      kursnr        |-> row.kursnr,
      zeitraum_href |-> IF row.zeitraum THEN ZeitraumHref(row.kursnr) ELSE NULL,
      _offer_name   |-> OfferName(href),
      _leitung      |-> row.leitung ]

extract_courses_for_offer(s, href) ==
    LET kept == SelectSeq(s.courses[href], LAMBDA r : r.kursnr # "")
    IN  [ i \in 1..Len(kept) |-> CourseData(href, kept[i]) ]

\* extract_offer_metadata(offer): {} or {"image_url": ...}
extract_offer_metadata(s, href) == s.meta[href]

\* extract_course_dates(kursnr, zeitraum_href)
extract_course_dates(s, kursnr, zeitraum_href) ==
    LET page == s.dates[KursnrOfHref(zeitraum_href)]
    IN  [ i \in 1..Len(page) |->
            [ kursnr        |-> kursnr,
              start_time    |-> page[i].start_time,
              location_name |-> IF Strip(page[i].ort) = <<>> THEN NoText
                                ELSE Strip(page[i].ort) ] ]

\* ------------------------------------------------------------------------
\* Local computations of main()
\* ------------------------------------------------------------------------
TransientKeys == { "_offer_name", "_leitung" }

WithEveryKey(courses) == courses

\* courses_for_db: every key not starting with "_"
courses_for_db(courses) ==
    [ i \in 1..Len(courses) |->
        [ k \in (DOMAIN courses[i]) \ TransientKeys |-> courses[i][k] ] ]

\* (kursnr, trainer_name) in the order the courses list them
TrainerOccurrences(courses) ==
    Flatten([ i \in 1..Len(courses) |->
        LET leitung == Strip(courses[i]._leitung)
            names   == IF leitung # <<>> THEN extract_trainer_names(leitung) ELSE <<>>
        IN  [ j \in 1..Len(names) |->
                [ kursnr |-> courses[i].kursnr, trainer_name |-> names[j] ] ] ])

\* trainer_to_courses.keys(): the trainer names in order of first appearance
RECURSIVE Dedup(_)
Dedup(xs) ==
    IF xs = <<>> THEN <<>>
    ELSE LET front == Dedup(SubSeq(xs, 1, Len(xs) - 1))
             last  == xs[Len(xs)]
         IN  IF last \in Range(front) THEN front ELSE Append(front, last)

TrainerKeys(courses) ==
    LET occ == TrainerOccurrences(courses)
    IN  Dedup([ i \in 1..Len(occ) |-> occ[i].trainer_name ])

all_trainers(courses) ==
    LET keys == TrainerKeys(courses)
    IN  [ i \in 1..Len(keys) |-> [ name |-> keys[i], rating |-> DefaultRating ] ]

kurs_trainer_rows(courses) ==
    LET keys == TrainerKeys(courses)
        occ  == TrainerOccurrences(courses)
    IN  Flatten([ i \in 1..Len(keys) |->
                    SelectSeq(occ, LAMBDA r : r.trainer_name = keys[i]) ])

\* valid_names from the rows of unisport_locations
ValidNames(rows) == { Strip(n) : n \in { r \in rows : r # <<>> /\ r # NoText } }

\* location_name is set to None if blank or (valid_names and not in it)
CleanLocation(row, valid) ==
    LET ln == IF row.location_name = NoText THEN <<>> ELSE Strip(row.location_name)
    IN  IF ln = <<>> \/ (valid # {} /\ ln \notin valid)
        THEN [ row EXCEPT !.location_name = NoText ]
        ELSE row

MergeCanceledAsNew(row, existing) == FALSE

\* the canceled flag of an outgoing row
MergeCanceled(row, existing) ==
    LET key == << row.kursnr, row.start_time >>
    IN  IF key \in DOMAIN existing THEN existing[key] ELSE FALSE

WithCanceled(dates, existing) ==
    [ i \in 1..Len(dates) |->
        [ kursnr        |-> dates[i].kursnr,
          start_time    |-> dates[i].start_time,
          location_name |-> dates[i].location_name,
          canceled      |-> MergeCanceled(dates[i], existing) ] ]

\* ------------------------------------------------------------------------
\* main() as one function of the stored tables, the locations and the site:
\* what a run writes when no call raises and nobody else writes meanwhile
\* ------------------------------------------------------------------------
\* all_courses after the loop over the offers
AllCourses(s) ==
    Flatten([ i \in 1..Len(s.offers) |-> extract_courses_for_offer(s, s.offers[i]) ])

\* all_dates after the loop over the courses
AllDates(s) ==
    LET courses == AllCourses(s)
    IN  Flatten([ i \in 1..Len(courses) |->
            IF courses[i].zeitraum_href # NULL /\ courses[i].kursnr # ""
            THEN extract_course_dates(s, courses[i].kursnr, courses[i].zeitraum_href)
            ELSE <<>> ])

\* the offers upsert and the metadata upserts
RECURSIVE WithMetadata(_, _, _)
WithMetadata(table, s, hrefs) ==
    IF hrefs = <<>> THEN table
    ELSE LET metadata == extract_offer_metadata(s, Head(hrefs))
             next == IF metadata = NULL THEN table
                     ELSE UpsertRow(table,
                                    [ href |-> Head(hrefs), name |-> OfferName(Head(hrefs)),
                                      image_url |-> metadata ],
                                    {"href"}, OfferDefaults)
         IN  WithMetadata(next, s, Tail(hrefs))

\* the delete loop over kursnrs_to_update
RECURSIVE DeleteAll(_, _)
DeleteAll(bag, courses) ==
    IF courses = <<>> THEN bag
    ELSE DeleteAll(DeleteEq(bag, Head(courses).kursnr), Tail(courses))

\* existing_canceled after the selects for the kursnrs of the dates
ExistingCanceled(sessions, dates) ==
    LET data == { r \in sessions : \E i \in 1..Len(dates) : dates[i].kursnr = r.kursnr }
    IN  [ key \in { << r.kursnr, r.start_time >> : r \in data } |->
            (CHOOSE r \in data : << r.kursnr, r.start_time >> = key).canceled ]

NoResult == [ ok |-> FALSE ]

CompleteRun(t, locations, s) ==
    LET courses  == AllCourses(s)
        rows     == courses_for_db(courses)
        links    == kurs_trainer_rows(courses)
        dates    == AllDates(s)
        cleaned  == [ i \in 1..Len(dates) |->
                        CleanLocation(dates[i], ValidNames(locations)) ]
        sessions == WithCanceled(cleaned, ExistingCanceled(t.sessions, dates))
    IN  IF HasDupKeys(rows, {"kursnr"}) \/ HasDupKeys(sessions, {"kursnr", "start_time"})
        THEN NoResult
        ELSE [ ok     |-> TRUE,
               tables |->
                 [ offers   |-> WithMetadata(
                                    Upsert(t.offers,
                                           [ i \in 1..Len(s.offers) |->
                                               [ name |-> OfferName(s.offers[i]),
                                                 href |-> s.offers[i] ] ],
                                           {"href"}, OfferDefaults),
                                    s, s.offers),
                   courses  |-> Upsert(t.courses, rows, {"kursnr"}, CourseDefaults),
                   trainers |-> Upsert(t.trainers, all_trainers(courses), {"name"},
                                       TrainerDefaults),
                   links    |-> IF links = <<>> THEN t.links
                                ELSE DeleteAll(t.links, courses) (+) SeqToBag(links),
                   sessions |-> Upsert(t.sessions, sessions, {"kursnr", "start_time"},
                                       TerminDefaults) ] ]

\* ------------------------------------------------------------------------
\* State
\* ------------------------------------------------------------------------
VARIABLES
    \* storage tables
    sportangebote,       \* set of [href, name, image_url]
    sportkurse,          \* set of [kursnr, offer_href, zeitraum_href]
    trainer,             \* set of [name, rating]
    kurs_trainer,        \* bag of [kursnr, trainer_name]
    kurs_termine,        \* set of [kursnr, start_time, location_name, canceled]
    unisport_locations,  \* set of names
    etl_runs,            \* number of rows
    \* the site
    snap,
    \* one execution of main()
    pc, idx, offers, all_courses, all_dates, existing_canceled, pending,
    \* bookkeeping of the runs
    runs, completed, audit_failed, abort_cause, canceled_at_start,
    ext_canceled, prev, orig,
    \* a second execution of main() while it does not have the processor
    parked,
    \* extract_locations_from_html.py: the parsed sources
    markers,             \* sequence of [name, lat, lng]
    menu,                \* the menu entries [name, sports, href, spid] in page order
    \* extract_locations_from_html.py: main()
    merged, seen_names, fuzzy_matches, exact_matches, menu_only, report,
    mpc, m_idx,
    fuzzy_calls,         \* the targets fuzzy_match_name was called with
    \* one call of a function on its own: the arguments and what it returned
    call, ret,
    \* db.py: the social tables and the calls in progress
    friend_requests,     \* set of [id, requester_id, addressee_id, status]
    user_friends,        \* bag of [requester_id, addressee_id]
    sess,                \* per browser session: the call of db.py in progress
    done,                \* per browser session: the last call and what it returned
    accepts,             \* number of calls of accept_friend_request
    \* security.py: st.session_state of one browser session and its clock
    session_state,       \* per rate limit key: absent, or [actions, last_reset]
    security_log,        \* the number of entries of st.session_state["security_log"]
    current_time,        \* time.time()
    checks               \* the last call of rate_limit_check, and per key the
                         \* calls that returned True since the key's last reset

storage == << sportangebote, sportkurse, trainer, kurs_trainer, kurs_termine,
              unisport_locations, etl_runs >>
entity_tables == << sportangebote, sportkurse, trainer, kurs_trainer, kurs_termine >>
locals  == << pc, idx, offers, all_courses, all_dates, existing_canceled, pending >>
history == << runs, completed, audit_failed, abort_cause, canceled_at_start,
              ext_canceled, prev, orig >>
scraper_vars == << storage, snap, locals, history, parked >>

\* the merge of extract_locations_from_html.py
merge_vars == << markers, menu, merged, seen_names, fuzzy_matches, exact_matches,
                 menu_only, report, mpc, m_idx, fuzzy_calls >>

\* a function called on its own
call_vars == << call, ret >>

\* what a run of the scraper leaves alone
\* the friends functions of db.py
social_vars == << friend_requests, user_friends, sess, done, accepts >>

\* rate_limit_check of security.py
limit_vars == << session_state, security_log, current_time, checks >>

\* the web application
app_vars == << social_vars, limit_vars >>

other_vars == << merge_vars, call_vars, parked, app_vars >>

vars    == << scraper_vars, merge_vars, call_vars, app_vars >>

\* prev: the entity tables as the previous run left them, kept only while no
\* other writer has touched storage since that run started.
NoPrev == [ valid |-> FALSE ]
Disturbed == [ valid |-> FALSE, disturbed |-> TRUE ]

\* orig: the entity tables as they were when the first of a series of runs on
\* one site started, and the number of runs of the series that raised; kept
\* only while no other writer has touched storage.
NoOrig == [ valid |-> FALSE ]

\* no second execution of main()
NoRun == [ pc |-> "none" ]

Tables ==
    [ offers   |-> sportangebote,
      courses  |-> sportkurse,
      trainers |-> trainer,
      links    |-> kurs_trainer,
      sessions |-> kurs_termine ]

EmptyMap == [ k \in {} |-> FALSE ]

NoReport == [ total |-> 0 ]

NoCall == [ fn |-> "none" ]
Pending == [ returned |-> FALSE ]

\* no function is called on its own
CallIdle == call = NoCall /\ ret = Pending

\* no browser session is in a call of db.py
NoCallInProgress == [ pc |-> "idle" ]
NotCalled == [ fn |-> "none" ]
Sessions == { "s1", "s2" }

SocialIdle ==
    /\ friend_requests = {}
    /\ user_friends = EmptyBag
    /\ sess = [ s \in Sessions |-> NoCallInProgress ]
    /\ done = [ s \in Sessions |-> NotCalled ]
    /\ accepts = 0

\* the actions and users rate_limit_check is called for, and their keys in
\* st.session_state: f"rate_limit_{action}_{user_identifier}"
LimitedCalls == { << "a_b", "c" >>, << "a", "b_c" >>, << "a", "c" >> }
rate_limit_key(action, user_identifier) == "rate_limit_" \o action \o "_" \o user_identifier
RateLimitKeys == { rate_limit_key(c[1], c[2]) : c \in LimitedCalls }
NotInSessionState == [ present |-> FALSE ]
NoCheck == [ key |-> "none" ]

\* nothing in st.session_state, the clock at its start
LimitIdle ==
    /\ session_state = [ k \in RateLimitKeys |-> NotInSessionState ]
    /\ security_log = 0
    /\ current_time = 0
    /\ checks = [ count |-> 0, last |-> NoCheck, trues |-> [ k \in RateLimitKeys |-> 0 ] ]

\* the web application is not used
AppIdle == SocialIdle /\ LimitIdle

\* extract_locations_from_html.py is not running
MergeIdle ==
    /\ markers = <<>>
    /\ menu = <<>>
    /\ merged = <<>>
    /\ seen_names = {}
    /\ fuzzy_matches = <<>>
    /\ exact_matches = 0
    /\ menu_only = <<>>
    /\ report = NoReport
    /\ mpc = "off"
    /\ m_idx = 0
    /\ fuzzy_calls = {}

EmptyTables ==
    [ offers |-> {}, courses |-> {}, trainers |-> {}, links |-> EmptyBag, sessions |-> {} ]

\* the entity tables hold t; no location and no audit record is stored
StorageIs(t) ==
    /\ sportangebote = t.offers
    /\ sportkurse = t.courses
    /\ trainer = t.trainers
    /\ kurs_trainer = t.links
    /\ kurs_termine = t.sessions
    /\ unisport_locations = {}
    /\ etl_runs = 0

\* no run of the scraper in progress
NoRunYet(site) ==
    /\ snap \in site
    /\ pc = "idle"
    /\ idx = 0
    /\ offers = <<>>
    /\ all_courses = <<>>
    /\ all_dates = <<>>
    /\ existing_canceled = EmptyMap
    /\ pending = {}
    /\ runs = 0
    /\ completed = 0
    /\ audit_failed = 0
    /\ abort_cause = "none"
    /\ canceled_at_start = {}
    /\ ext_canceled = {}
    /\ prev = NoPrev
    /\ orig = NoOrig
    /\ parked = NoRun

\* nothing stored yet and no run of the scraper in progress
ScraperIdle(site) == StorageIs(EmptyTables) /\ NoRunYet(site)

\* what storage holds before the runs: nothing, or what a complete run on a
\* site has stored
StoredBy(site) ==
    { EmptyTables } \cup
    { CompleteRun(EmptyTables, {}, s).tables :
        s \in { x \in site : CompleteRun(EmptyTables, {}, x).ok } }

InitIn(site) == ScraperIdle(site) /\ MergeIdle /\ CallIdle /\ AppIdle

RaiseAfterLogging(cause) ==
    /\ pc' = "aborted"
    /\ abort_cause' = cause
    /\ idx' = 0
    /\ offers' = <<>>
    /\ all_courses' = <<>>
    /\ all_dates' = <<>>
    /\ existing_canceled' = [ k \in {} |-> FALSE ]
    /\ pending' = {}
    /\ etl_runs' = etl_runs + 1
    /\ UNCHANGED << sportangebote, sportkurse, trainer, kurs_trainer, kurs_termine,
                    unisport_locations, snap, other_vars, runs, completed, audit_failed,
                    canceled_at_start, ext_canceled, prev, orig >>

\* An exception leaves main(): nothing further is written.
Raise(cause) ==
    /\ pc' = "aborted"
    /\ abort_cause' = cause
    /\ idx' = 0
    /\ offers' = <<>>
    /\ all_courses' = <<>>
    /\ all_dates' = <<>>
    /\ existing_canceled' = EmptyMap
    /\ pending' = {}
    /\ UNCHANGED << storage, snap, other_vars, runs, completed, audit_failed,
                    canceled_at_start, ext_canceled, prev, orig >>

CanceledKeys(rows) == { << r.kursnr, r.start_time >> : r \in { x \in rows : x.canceled } }

\* ------------------------------------------------------------------------
\* main() of scrape_sportangebote.py, one action per fetch or storage call
\* ------------------------------------------------------------------------
AfterLinks(courses) == IF courses # <<>> THEN "dates" ELSE "audit"

AfterCourses(courses) ==
    IF all_trainers(courses) # <<>> THEN "upsert_trainers" ELSE AfterLinks(courses)

AfterDates(dates) == IF dates # <<>> THEN "select_locations" ELSE "audit"

\* extract_offers(html_source)
StartRun ==
    /\ pc = "idle"
    /\ runs < MaxRuns
    /\ runs' = runs + 1
    /\ canceled_at_start' = CanceledKeys(kurs_termine)
    /\ prev' = IF prev = Disturbed THEN NoPrev ELSE prev
    /\ orig' = IF orig.valid THEN orig
               ELSE [ valid |-> TRUE, tables |-> Tables, aborts |-> 0 ]
    /\ \/ /\ pc' = "aborted"
          /\ abort_cause' = "index"
          /\ UNCHANGED offers
       \/ /\ pc' = "upsert_offers"
          /\ abort_cause' = "none"
          /\ offers' = snap.offers
    /\ UNCHANGED << storage, snap, other_vars, idx, all_courses, all_dates, existing_canceled,
                    pending, completed, audit_failed, ext_canceled >>

\* sportangebote upsert of all offers
UpsertOffers ==
    /\ pc = "upsert_offers"
    /\ \/ Raise("storage")
       \/ /\ sportangebote' =
                Upsert(sportangebote,
                       [ i \in 1..Len(offers) |->
                           [ name |-> OfferName(offers[i]), href |-> offers[i] ] ],
                       {"href"}, OfferDefaults)
          /\ pc' = "metadata"
          /\ idx' = 1
          /\ UNCHANGED << sportkurse, trainer, kurs_trainer, kurs_termine,
                          unisport_locations, etl_runs, snap, other_vars, offers, all_courses,
                          all_dates, existing_canceled, pending, history >>

LoopStep(n, next) ==
    IF idx < n THEN pc' = pc /\ idx' = idx + 1 ELSE pc' = next /\ idx' = 1

\* one iteration of the metadata loop
OfferMetadata ==
    /\ pc = "metadata"
    /\ LET metadata == extract_offer_metadata(snap, offers[idx])
       IN  \/ Raise("fetch")
           \/ /\ metadata # NULL
              /\ Raise("storage")
           \/ /\ sportangebote' =
                    IF metadata = NULL THEN sportangebote
                    ELSE UpsertRow(sportangebote,
                                   [ href |-> offers[idx], name |-> OfferName(offers[idx]),
                                     image_url |-> metadata ],
                                   {"href"}, OfferDefaults)
              /\ LoopStep(Len(offers), "courses")
              /\ UNCHANGED << sportkurse, trainer, kurs_trainer, kurs_termine,
                              unisport_locations, etl_runs, snap, other_vars, offers, all_courses,
                              all_dates, existing_canceled, pending, history >>

\* one iteration of the course extraction loop
ExtractCourses ==
    /\ pc = "courses"
    /\ \/ Raise("fetch")
       \/ /\ all_courses' = all_courses \o extract_courses_for_offer(snap, offers[idx])
          /\ LoopStep(Len(offers), "upsert_courses")
          /\ UNCHANGED << storage, snap, other_vars, offers, all_dates, existing_canceled,
                          pending, history >>

\* sportkurse upsert
UpsertCourses ==
    /\ pc = "upsert_courses"
    /\ LET rows == courses_for_db(all_courses)
       IN  \/ Raise("storage")
           \/ /\ ~HasDupKeys(rows, {"kursnr"})
              /\ sportkurse' = Upsert(sportkurse, rows, {"kursnr"}, CourseDefaults)
              /\ pc' = AfterCourses(all_courses)
              /\ idx' = 1
              /\ UNCHANGED << sportangebote, trainer, kurs_trainer, kurs_termine,
                              unisport_locations, etl_runs, snap, other_vars, offers, all_courses,
                              all_dates, existing_canceled, pending, history >>

\* trainer upsert
UpsertTrainers ==
    /\ pc = "upsert_trainers"
    /\ \/ Raise("storage")
       \/ /\ trainer' = Upsert(trainer, all_trainers(all_courses), {"name"}, TrainerDefaults)
          /\ pc' = "delete_links"
          /\ idx' = 1
          /\ UNCHANGED << sportangebote, sportkurse, kurs_trainer, kurs_termine,
                          unisport_locations, etl_runs, snap, other_vars, offers, all_courses,
                          all_dates, existing_canceled, pending, history >>

\* one delete of the kursnrs_to_update loop
DeleteLinks ==
    /\ pc = "delete_links"
    /\ \/ Raise("storage")
       \/ /\ kurs_trainer' = DeleteEq(kurs_trainer, all_courses[idx].kursnr)
          /\ LoopStep(Len(all_courses), "insert_links")
          /\ UNCHANGED << sportangebote, sportkurse, trainer, kurs_termine,
                          unisport_locations, etl_runs, snap, other_vars, offers, all_courses,
                          all_dates, existing_canceled, pending, history >>

\* kurs_trainer insert
InsertLinks ==
    /\ pc = "insert_links"
    /\ \/ Raise("storage")
       \/ /\ kurs_trainer' = kurs_trainer (+) SeqToBag(kurs_trainer_rows(all_courses))
          /\ pc' = "dates"
          /\ idx' = 1
          /\ UNCHANGED << sportangebote, sportkurse, trainer, kurs_termine,
                          unisport_locations, etl_runs, snap, other_vars, offers, all_courses,
                          all_dates, existing_canceled, pending, history >>

\* one iteration of the dates loop
ExtractDates ==
    /\ pc = "dates"
    /\ LET c       == all_courses[idx]
           fetched == c.zeitraum_href # NULL /\ c.kursnr # ""
           dates   == IF fetched
                      THEN all_dates \o extract_course_dates(snap, c.kursnr, c.zeitraum_href)
                      ELSE all_dates
       IN  \/ /\ fetched
              /\ Raise("fetch")
           \/ /\ all_dates' = dates
              /\ IF idx < Len(all_courses)
                 THEN pc' = pc /\ idx' = idx + 1
                 ELSE pc' = AfterDates(dates) /\ idx' = 1
              /\ UNCHANGED << storage, snap, other_vars, offers, all_courses, existing_canceled,
                              pending, history >>

\* unisport_locations select, then the location_name clean-up of all_dates
SelectLocations ==
    /\ pc = "select_locations"
    /\ \/ Raise("storage")
       \/ /\ LET valid_names == ValidNames(unisport_locations)
             IN  all_dates' = [ i \in 1..Len(all_dates) |->
                                  CleanLocation(all_dates[i], valid_names) ]
          /\ pending' = { all_dates[i].kursnr : i \in 1..Len(all_dates) }
          /\ existing_canceled' = EmptyMap
          /\ pc' = "select_canceled"
          /\ UNCHANGED << storage, snap, other_vars, idx, offers, all_courses, history >>

\* one kurs_termine select of the kursnrs_set loop
SelectCanceled ==
    /\ pc = "select_canceled"
    /\ \/ Raise("storage")
       \/ \E kursnr \in pending :
            LET data == { r \in kurs_termine : r.kursnr = kursnr }
                read == [ key \in { << r.kursnr, r.start_time >> : r \in data } |->
                            (CHOOSE r \in data :
                                << r.kursnr, r.start_time >> = key).canceled ]
            IN  /\ existing_canceled' = read @@ existing_canceled
                /\ pending' = pending \ {kursnr}
                /\ pc' = IF pending' = {} THEN "upsert_termine" ELSE pc
                /\ UNCHANGED << storage, snap, other_vars, idx, offers, all_courses, all_dates,
                                history >>

\* the canceled merge and the kurs_termine upsert
UpsertTermine ==
    /\ pc = "upsert_termine"
    /\ LET rows == WithCanceled(all_dates, existing_canceled)
       IN  \/ Raise("storage")
           \/ /\ ~HasDupKeys(rows, {"kursnr", "start_time"})
              /\ kurs_termine' =
                    Upsert(kurs_termine, rows, {"kursnr", "start_time"}, TerminDefaults)
              /\ pc' = "audit"
              /\ UNCHANGED << sportangebote, sportkurse, trainer, kurs_trainer,
                              unisport_locations, etl_runs, snap, other_vars, idx, offers,
                              all_courses, all_dates, existing_canceled, pending,
                              history >>

AuditFailureRaises ==
    /\ pc' = "aborted"
    /\ audit_failed' = audit_failed + 1
    /\ UNCHANGED << storage, abort_cause >>

\* what main() does when the etl_runs insert raises
AuditFailure ==
    /\ pc' = "done"
    /\ audit_failed' = audit_failed + 1
    /\ UNCHANGED << storage, abort_cause >>

\* the etl_runs insert in its try/except
LogRun ==
    /\ pc = "audit"
    /\ completed' = completed + 1
    /\ \/ /\ etl_runs' = etl_runs + 1
          /\ pc' = "done"
          /\ UNCHANGED << entity_tables, unisport_locations, audit_failed, abort_cause >>
       \/ AuditFailure
    /\ UNCHANGED << snap, other_vars, idx, offers, all_courses, all_dates, existing_canceled,
                    pending, runs, canceled_at_start, ext_canceled, prev, orig >>

\* main() has returned or raised; the next scheduled run may start
Finish ==
    /\ pc \in {"done", "aborted"}
    /\ pc' = "idle"
    /\ idx' = 0
    /\ offers' = <<>>
    /\ all_courses' = <<>>
    /\ all_dates' = <<>>
    /\ existing_canceled' = EmptyMap
    /\ pending' = {}
    /\ canceled_at_start' = {}
    /\ prev' = IF pc = "done" /\ prev # Disturbed
               THEN [ valid |-> TRUE, tables |-> Tables ]
               ELSE NoPrev
    /\ orig' = IF pc = "aborted" /\ orig.valid
               THEN [ orig EXCEPT !.aborts = @ + 1 ]
               ELSE NoOrig
    /\ UNCHANGED << storage, snap, other_vars, runs, completed, audit_failed, abort_cause,
                    ext_canceled >>

\* ------------------------------------------------------------------------
\* Two executions of main() at the same time
\* ------------------------------------------------------------------------
\* the position and the local variables of the execution that is running
RunState ==
    [ pc |-> pc, idx |-> idx, offers |-> offers, all_courses |-> all_courses,
      all_dates |-> all_dates, existing_canceled |-> existing_canceled,
      pending |-> pending ]

IdleRun ==
    [ pc |-> "idle", idx |-> 0, offers |-> <<>>, all_courses |-> <<>>,
      all_dates |-> <<>>, existing_canceled |-> EmptyMap, pending |-> {} ]

\* the script is started a second time while a run is in progress
Fork ==
    /\ parked = NoRun
    /\ pc \notin {"idle", "done", "aborted"}
    /\ runs < MaxRuns
    /\ parked' = IdleRun
    /\ UNCHANGED << storage, snap, locals, history, merge_vars, call_vars, app_vars >>

\* the other execution goes on: between two calls of one execution the other
\* may do any number of its own
Switch ==
    /\ parked # NoRun
    /\ parked' = RunState
    /\ pc' = parked.pc
    /\ idx' = parked.idx
    /\ offers' = parked.offers
    /\ all_courses' = parked.all_courses
    /\ all_dates' = parked.all_dates
    /\ existing_canceled' = parked.existing_canceled
    /\ pending' = parked.pending
    /\ UNCHANGED << storage, snap, history, merge_vars, call_vars, app_vars >>

\* ------------------------------------------------------------------------
\* The environment
\* ------------------------------------------------------------------------
\* update_cancellations.py marks a stored session as canceled
ExtCancel ==
    \E r \in kurs_termine :
        /\ ~r.canceled
        /\ kurs_termine' = (kurs_termine \ {r}) \cup { [ r EXCEPT !.canceled = TRUE ] }
        /\ ext_canceled' = ext_canceled \cup { << r.kursnr, r.start_time >> }
        /\ prev' = Disturbed
        /\ orig' = NoOrig
        /\ UNCHANGED << sportangebote, sportkurse, trainer, kurs_trainer,
                        unisport_locations, etl_runs, snap, other_vars, locals, runs, completed,
                        audit_failed, abort_cause, canceled_at_start >>

\* somebody else changes the rating of a stored trainer
ExtRate ==
    \E r \in trainer :
        /\ r.rating # OtherRating
        /\ trainer' = (trainer \ {r}) \cup { [ r EXCEPT !.rating = OtherRating ] }
        /\ prev' = Disturbed
        /\ orig' = NoOrig
        /\ UNCHANGED << sportangebote, sportkurse, kurs_trainer, kurs_termine,
                        unisport_locations, etl_runs, snap, other_vars, locals, runs, completed,
                        audit_failed, abort_cause, canceled_at_start, ext_canceled >>

\* the location pipeline stores a location
StoredLocationNames == { <<"X">> }

ExtAddLocation ==
    \E n \in StoredLocationNames \ unisport_locations :
        /\ unisport_locations' = unisport_locations \cup {n}
        /\ prev' = Disturbed
        /\ orig' = NoOrig
        /\ UNCHANGED << entity_tables, etl_runs, snap, other_vars, locals, runs, completed,
                        audit_failed, abort_cause, canceled_at_start, ext_canceled >>

\* the site changes between two runs
SourceChange(site) ==
    /\ pc = "idle"
    /\ runs < MaxRuns
    /\ snap' \in site \ {snap}
    /\ prev' = NoPrev
    /\ orig' = NoOrig
    /\ UNCHANGED << storage, locals, runs, completed, audit_failed, abort_cause,
                    canceled_at_start, ext_canceled, other_vars >>

\* ------------------------------------------------------------------------
\* extract_locations_from_html.py: names, SequenceMatcher, fuzzy_match_name
\* ------------------------------------------------------------------------
Max(S) == CHOOSE x \in S : \A y \in S : y <= x
Min(S) == CHOOSE x \in S : \A y \in S : x <= y

\* str.lower() on the letters of the model
LowerChar(c) == IF c = "A" THEN "a" ELSE IF c = "B" THEN "b" ELSE c
Lower(s) == [ i \in 1..Len(s) |-> LowerChar(s[i]) ]

BlockAt(a, b, i, j, k) == SubSeq(a, i, i + k - 1) = SubSeq(b, j, j + k - 1)

\* SequenceMatcher.find_longest_match without junk: the longest common block,
\* the one that starts earliest in a, and of those the earliest in b.
find_longest_match(a, b) ==
    LET sizes == { k \in 0..Min({Len(a), Len(b)}) :
                     k = 0 \/ \E i \in 1..(Len(a) - k + 1), j \in 1..(Len(b) - k + 1) :
                                 BlockAt(a, b, i, j, k) }
        k == Max(sizes)
        i == Min({ x \in 1..(Len(a) - k + 1) :
                     \E j \in 1..(Len(b) - k + 1) : BlockAt(a, b, x, j, k) })
        j == Min({ y \in 1..(Len(b) - k + 1) : BlockAt(a, b, i, y, k) })
    IN  IF k = 0 THEN [ i |-> 1, j |-> 1, size |-> 0 ]
        ELSE [ i |-> i, j |-> j, size |-> k ]

\* the sum of the sizes of get_matching_blocks()
RECURSIVE MatchedChars(_, _)
MatchedChars(a, b) ==
    IF a = <<>> \/ b = <<>> THEN 0
    ELSE LET m == find_longest_match(a, b)
         IN  IF m.size = 0 THEN 0
             ELSE m.size
                  + MatchedChars(SubSeq(a, 1, m.i - 1), SubSeq(b, 1, m.j - 1))
                  + MatchedChars(SubSeq(a, m.i + m.size, Len(a)),
                                 SubSeq(b, m.j + m.size, Len(b)))

\* SequenceMatcher.ratio() as the fraction 2.0 * matches / length (1.0 for
\* two empty strings)
Ratio(a, b) ==
    IF Len(a) + Len(b) = 0 THEN [ num |-> 1, den |-> 1 ]
    ELSE [ num |-> 2 * MatchedChars(a, b), den |-> Len(a) + Len(b) ]

RatioNotLess(r, s) == r.num * s.den >= s.num * r.den

\* ratio > best_ratio
RatioGreater(r, s) == r.num * s.den > s.num * r.den

\* threshold: float = 0.85
ThresholdNum == 85
ThresholdDen == 100

AboveThreshold(r) == r.num * ThresholdDen > ThresholdNum * r.den

\* best_ratio >= threshold
AtLeastThreshold(r) == r.num * ThresholdDen >= ThresholdNum * r.den

\* the loop of fuzzy_match_name: best_match and best_ratio after the candidates
RECURSIVE BestCandidate(_, _)
BestCandidate(target_normalized, candidates) ==
    IF candidates = <<>> THEN [ match |-> NoText, ratio |-> [ num |-> 0, den |-> 1 ] ]
    ELSE LET before    == BestCandidate(target_normalized,
                                        SubSeq(candidates, 1, Len(candidates) - 1))
             candidate == candidates[Len(candidates)]
             ratio     == Ratio(target_normalized, Lower(Strip(candidate)))
         IN  IF RatioGreater(ratio, before.ratio)
             THEN [ match |-> candidate, ratio |-> ratio ]
             ELSE before

\* fuzzy_match_name(target, candidates): the best match or None
fuzzy_match_name(target, candidates) ==
    LET best == BestCandidate(Lower(Strip(target)), candidates)
    IN  IF AtLeastThreshold(best.ratio) THEN best.match ELSE NoText

\* ------------------------------------------------------------------------
\* extract_locations_from_html.py: main()
\* ------------------------------------------------------------------------
\* list(loc_links.keys()) and list(loc_to_sports.keys()): the names of the menu
MenuKeys(entries) == [ i \in 1..Len(entries) |-> entries[i].name ]

\* loc_links.get(name, {})
LinkData(entries, name) ==
    IF \E i \in 1..Len(entries) : entries[i].name = name
    THEN LET e == entries[CHOOSE i \in 1..Len(entries) : entries[i].name = name]
         IN  [ found |-> TRUE, href |-> e.href, spid |-> e.spid ]
    ELSE [ found |-> FALSE, href |-> NULL, spid |-> NULL ]

\* the names of the markers and of the menu
MarkerNames == { <<"a", "b">>, <<"a", "b", " ">>, <<"A", "b">>,
                 <<"a", "b", "c", "d">>, <<"z">> }
MenuNames == { <<"a", "b">>, <<"A", "b">>, <<"a", "b", "c">>, <<"z">> }
Lats == { "47.1", "47.2" }

MaxMarkers == 2
MaxMenu == 2

MarkerLists == SeqsUpTo([ name : MarkerNames, lat : Lats, lng : {"9.3"} ], MaxMarkers)

\* the spid parameter of the link of a menu entry; "z" has no link
MenuSpid(n) ==
    IF n = <<"a", "b">> THEN "12"
    ELSE IF n = <<"A", "b">> THEN "13"
    ELSE IF n = <<"a", "b", "c">> THEN "14"
    ELSE NULL

MenuEntry(n) ==
    [ name   |-> n,
      sports |-> IF n = <<"z">> THEN <<>> ELSE << "Volleyball" >>,
      href   |-> IF MenuSpid(n) = NULL THEN NULL ELSE "ort?spid=" \o MenuSpid(n),
      spid   |-> MenuSpid(n) ]

\* the menu dictionaries have one entry per name
MenuLists ==
    { [ i \in 1..Len(ns) |-> MenuEntry(ns[i]) ] :
        ns \in { x \in SeqsUpTo(MenuNames, MaxMenu) :
                   \A i, j \in 1..Len(x) : i # j => x[i] # x[j] } }

\* the sources are parsed
InitLocations ==
    /\ markers \in MarkerLists
    /\ menu \in MenuLists
    /\ merged = <<>>
    /\ seen_names = {}
    /\ fuzzy_matches = <<>>
    /\ exact_matches = 0
    /\ menu_only = <<>>
    /\ report = NoReport
    /\ mpc = IF markers # <<>> THEN "markers" ELSE IF menu # <<>> THEN "menu" ELSE "report"
    /\ m_idx = 1
    /\ fuzzy_calls = {}

HasLinkNever(link_data) == FALSE

\* "if link_data:" on what loc_links.get(name, {}) returned
HasLink(link_data) == link_data.found

NeverSeen(name, seen) == FALSE

\* if name in seen_names
AlreadySeen(name, seen) == name \in seen

\* one iteration of "for m in markers"
MergeMarker ==
    /\ mpc = "markers"
    /\ LET m     == markers[m_idx]
           name  == m.name
           exact == LinkData(menu, name)
           fuzzy_match == IF HasLink(exact) THEN NoText
                          ELSE fuzzy_match_name(name, MenuKeys(menu))
           link_data == IF HasLink(exact) THEN exact
                        ELSE IF fuzzy_match # NoText THEN LinkData(menu, fuzzy_match)
                        ELSE exact
       IN  IF AlreadySeen(name, seen_names)
           THEN UNCHANGED << merged, seen_names, fuzzy_matches, exact_matches, fuzzy_calls >>
           ELSE /\ seen_names' = seen_names \cup {name}
                /\ exact_matches' = IF HasLink(exact) THEN exact_matches + 1
                                    ELSE exact_matches
                /\ fuzzy_calls' = IF HasLink(exact) THEN fuzzy_calls
                                  ELSE fuzzy_calls \cup {name}
                /\ fuzzy_matches' = IF ~HasLink(exact) /\ fuzzy_match # NoText
                                    THEN Append(fuzzy_matches, << name, fuzzy_match >>)
                                    ELSE fuzzy_matches
                /\ merged' = Append(merged,
                                    [ name     |-> name,
                                      lat      |-> m.lat,
                                      lng      |-> m.lng,
                                      ort_href |-> IF link_data.found THEN link_data.href
                                                   ELSE NULL,
                                      spid     |-> IF link_data.found THEN link_data.spid
                                                   ELSE NULL ])
    /\ IF m_idx < Len(markers)
       THEN mpc' = mpc /\ m_idx' = m_idx + 1
       ELSE mpc' = (IF menu # <<>> THEN "menu" ELSE "report") /\ m_idx' = 1
    /\ UNCHANGED << markers, menu, menu_only, report, scraper_vars, call_vars, app_vars >>

\* one iteration of "for name, sports in loc_to_sports.items()"
SweepMenu ==
    /\ mpc = "menu"
    /\ LET name == menu[m_idx].name
           link == LinkData(menu, name)
       IN  IF name \notin seen_names
           THEN /\ menu_only' = Append(menu_only, name)
                /\ merged' = Append(merged,
                                    [ name     |-> name,
                                      lat      |-> NULL,
                                      lng      |-> NULL,
                                      ort_href |-> link.href,
                                      spid     |-> link.spid ])
           ELSE UNCHANGED << menu_only, merged >>
    /\ IF m_idx < Len(menu)
       THEN mpc' = mpc /\ m_idx' = m_idx + 1
       ELSE mpc' = "report" /\ m_idx' = 1
    /\ UNCHANGED << markers, menu, seen_names, fuzzy_matches, exact_matches, report,
                    fuzzy_calls, scraper_vars, call_vars, app_vars >>

\* the printed summary and the empty entries check
PrintReport ==
    /\ mpc = "report"
    /\ report' =
         [ exact          |-> exact_matches,
           fuzzy          |-> Len(fuzzy_matches),
           only_markers   |-> Len(markers),
           only_menu      |-> Len(menu_only),
           total          |-> Len(merged),
           missing_coords |-> Cardinality({ i \in 1..Len(merged) :
                                  merged[i].lat = NULL \/ merged[i].lng = NULL }),
           missing_link   |-> Cardinality({ i \in 1..Len(merged) :
                                  merged[i].ort_href = NULL }),
           missing_spid   |-> Cardinality({ i \in 1..Len(merged) :
                                  merged[i].spid = NULL }) ]
    /\ mpc' = "done"
    /\ UNCHANGED << markers, menu, merged, seen_names, fuzzy_matches, exact_matches,
                    menu_only, m_idx, fuzzy_calls, scraper_vars, call_vars, app_vars >>

\* ------------------------------------------------------------------------
\* fuzzy_match_name called on its own
\* ------------------------------------------------------------------------
RECURSIVE Rep(_, _)
Rep(c, n) == IF n = 0 THEN <<>> ELSE <<c>> \o Rep(c, n - 1)

\* names with a common block and different endings, around the threshold
BlockLens == { 16, 17 }
TargetNames == { Rep("a", n) \o Rep("x", k) : n \in BlockLens, k \in 0..3 }
CandidateNames ==
    { Rep("a", n) \o Rep("y", k) : n \in BlockLens, k \in 0..4 }
    \cup { Rep("A", 16), << " " >> \o Rep("a", 16) \o << "y", " " >> }

MaxCandidates == 2

FuzzyCalls ==
    [ fn : {"fuzzy_match_name"}, target : TargetNames,
      candidates : SeqsUpTo(CandidateNames, MaxCandidates) ]

\* fuzzy_match_name(target, candidates) returns
CallFuzzy ==
    /\ call.fn = "fuzzy_match_name"
    /\ ret = Pending
    /\ ret' = [ returned |-> TRUE,
                value    |-> fuzzy_match_name(call.target, call.candidates) ]
    /\ UNCHANGED << call, scraper_vars, merge_vars, app_vars >>

InitFuzzy ==
    /\ ScraperIdle({BaseSnapshot})
    /\ MergeIdle
    /\ call \in FuzzyCalls
    /\ ret = Pending
    /\ AppIdle

NextFuzzy ==
    \/ CallFuzzy

SpecFuzzy == InitFuzzy /\ [][NextFuzzy]_vars

\* ------------------------------------------------------------------------
\* scrape_sportangebote.py: parse_time_range and the rows of a dates table
\* ------------------------------------------------------------------------
DigitChars == << "0", "1", "2", "3", "4", "5", "6", "7", "8", "9" >>
Digits == { DigitChars[i] : i \in 1..Len(DigitChars) }
Spaces == { " " }

DigitVal(c) == (CHOOSE i \in 1..Len(DigitChars) : DigitChars[i] = c) - 1

IsNumber(s) == s # <<>> /\ \A i \in 1..Len(s) : s[i] \in Digits

\* int(s) of a string of digits
RECURSIVE ToInt(_)
ToInt(s) ==
    IF s = <<>> THEN 0
    ELSE 10 * ToInt(SubSeq(s, 1, Len(s) - 1)) + DigitVal(s[Len(s)])

\* str(n)
RECURSIVE ToStr(_)
ToStr(n) ==
    IF n < 10 THEN << DigitChars[n + 1] >>
    ELSE ToStr(n \div 10) \o << DigitChars[(n % 10) + 1] >>

\* f"{n:0{w}d}": zeros to the left up to the width, never cut
RECURSIVE ZeroPad(_, _)
ZeroPad(s, w) == IF Len(s) >= w THEN s ELSE ZeroPad(<<"0">> \o s, w)

NoPad(n) == ToStr(n)

\* f"{n:02d}"
Format02(n) == ZeroPad(ToStr(n), 2)

\* str.replace(".", ":")
ReplaceDots(s) == [ i \in 1..Len(s) |-> IF s[i] = "." THEN ":" ELSE s[i] ]

\* the pieces of the regular expressions: \d{1,2} and \d{2} as groups, \s*,
\* and one literal character
NoLimit == 0 - 1
D12 == [ class |-> Digits, min |-> 1, max |-> 2, group |-> TRUE ]
D2 == [ class |-> Digits, min |-> 2, max |-> 2, group |-> TRUE ]
WS == [ class |-> Spaces, min |-> 0, max |-> NoLimit, group |-> FALSE ]
Lit(c) == [ class |-> {c}, min |-> 1, max |-> 1, group |-> FALSE ]

patterns ==
    << << D12, Lit(":"), D2, WS, Lit("-"), WS, D12, Lit(":"), D2 >>,
       << D12, Lit(":"), D2, WS, Lit("-"), WS, D12, Lit("."), D2 >>,
       << D12, Lit("."), D2, WS, Lit("-"), WS, D12, Lit(":"), D2 >> >>

NoMatch == [ ok |-> FALSE, groups |-> <<>> ]

\* how many characters from position i on are of the class, at most limit
RECURSIVE RunLen(_, _, _, _)
RunLen(s, i, class, limit) ==
    IF limit = 0 \/ i > Len(s) \/ s[i] \notin class THEN 0
    ELSE 1 + RunLen(s, i + 1, class, limit - 1)

\* re.match(pattern, s) from position i: every piece takes as many characters
\* as it can and gives them back one by one while the rest does not match;
\* what follows the match in s is not looked at
RECURSIVE ReMatch(_, _, _)
RECURSIVE TryLen(_, _, _, _)
TryLen(p, s, i, n) ==
    IF n < Head(p).min THEN NoMatch
    ELSE LET rest == ReMatch(Tail(p), s, i + n)
         IN  IF rest.ok
             THEN [ ok     |-> TRUE,
                    groups |-> IF Head(p).group
                               THEN << SubSeq(s, i, i + n - 1) >> \o rest.groups
                               ELSE rest.groups ]
             ELSE TryLen(p, s, i, n - 1)

ReMatch(p, s, i) ==
    IF p = <<>> THEN [ ok |-> TRUE, groups |-> <<>> ]
    ELSE LET limit == IF Head(p).max = NoLimit THEN Len(s) ELSE Head(p).max
         IN  TryLen(p, s, i, RunLen(s, i, Head(p).class, limit))

NoTimes == [ start_time |-> NoText, end_time |-> NoText ]

\* f"{hour:02d}:{min:02d}:00"
IsoTime(h, m) == Format02(ToInt(h)) \o <<":">> \o Format02(ToInt(m)) \o << ":", "0", "0" >>

\* parse_time_range(zeit_txt): (start_time, end_time)
parse_time_range(zeit_txt) ==
    IF zeit_txt = <<>> \/ Strip(zeit_txt) = <<>> THEN NoTimes
    ELSE LET zeit_normalized == ReplaceDots(Strip(zeit_txt))
             hits == { k \in 1..Len(patterns) : ReMatch(patterns[k], zeit_normalized, 1).ok }
         IN  IF hits = {} THEN NoTimes
             ELSE LET g == ReMatch(patterns[Min(hits)], zeit_normalized, 1).groups
                  IN  [ start_time |-> IsoTime(g[1], g[2]),
                        end_time   |-> IsoTime(g[3], g[4]) ]

\* str.split(c)
RECURSIVE SplitAt(_, _)
SplitAt(s, c) ==
    IF \A i \in 1..Len(s) : s[i] # c
    THEN << s >>
    ELSE LET i == CHOOSE j \in 1..Len(s) : s[j] = c /\ \A m \in 1..(j - 1) : s[m] # c
         IN  << SubSeq(s, 1, i - 1) >> \o SplitAt(SubSeq(s, i + 1, Len(s)), c)

IsLeap(y) == (y % 4 = 0 /\ y % 100 # 0) \/ y % 400 = 0
DaysIn(m, y) ==
    IF m = 2 THEN (IF IsLeap(y) THEN 29 ELSE 28)
    ELSE IF m \in {4, 6, 9, 11} THEN 30 ELSE 31

\* datetime.strptime(datum_raw, "%d.%m.%Y").date().isoformat(), NoText where
\* strptime raises
IsoDate(datum_raw) ==
    LET parts == SplitAt(datum_raw, ".")
    IN  IF /\ Len(parts) = 3
           /\ \A i \in 1..3 : IsNumber(parts[i])
           /\ Len(parts[1]) <= 2
           /\ Len(parts[2]) <= 2
           /\ Len(parts[3]) = 4
           /\ ToInt(parts[3]) >= 1
           /\ ToInt(parts[2]) \in 1..12
           /\ ToInt(parts[1]) \in 1..DaysIn(ToInt(parts[2]), ToInt(parts[3]))
        THEN ZeroPad(ToStr(ToInt(parts[3])), 4) \o <<"-">> \o Format02(ToInt(parts[2]))
             \o <<"-">> \o Format02(ToInt(parts[1]))
        ELSE NoText

\* the body of "for tr in table.select('tr')" for the rows up to the n-th: the
\* records of out and the lines printed. A row is the texts of its cells,
\* already stripped by get_text, and the link of its fourth cell.
RECURSIVE DateRowsLoop(_, _, _)
DateRowsLoop(kursnr, trs, n) ==
    IF n = 0 THEN [ out |-> <<>>, printed |-> <<>> ]
    ELSE LET before == DateRowsLoop(kursnr, trs, n - 1)
             tds    == trs[n].tds
         IN  IF Len(tds) < 4 THEN before
             ELSE LET datum_iso == IsoDate(tds[2])
                      zeit_txt  == tds[3]
                      ort_txt   == tds[4]
                      times     == parse_time_range(zeit_txt)
                  IN  IF datum_iso = NoText THEN before
                      ELSE IF times.start_time = NoText
                      THEN [ before EXCEPT !.printed =
                               Append(@, [ kursnr |-> kursnr, datum_iso |-> datum_iso,
                                           zeit_txt |-> zeit_txt ]) ]
                      ELSE [ before EXCEPT !.out =
                               Append(@, [ kursnr        |-> kursnr,
                                           start_time    |-> datum_iso \o <<"T">>
                                                             \o times.start_time,
                                           end_time      |-> datum_iso \o <<"T">>
                                                             \o times.end_time,
                                           ort_href      |-> trs[n].ort_href,
                                           location_name |-> IF Strip(ort_txt) = <<>>
                                                             THEN NoText
                                                             ELSE Strip(ort_txt) ]) ]

\* ------------------------------------------------------------------------
\* parse_time_range and the rows of extract_course_dates called on their own
\* ------------------------------------------------------------------------
\* the texts of a time cell: two times of day with either minute separator,
\* with and without blanks around the hyphen or with another sign between
\* them, with blanks before and a word after, and texts that are no range
HourTexts == { <<"9">>, <<"1", "6">>, <<"0", "7">> }
MinuteTexts == { <<"1", "0">>, <<"0", "5">> }
MinuteSigns == { <<":">>, <<".">> }
BetweenTexts == { <<" ", "-", " ">>, <<"-">>, <<" ", "/", " ">> }
BeforeTexts == { <<>>, <<" ">> }
AfterTexts == { <<>>, <<" ", "h">> }

RangeTexts ==
    { b \o h1 \o s1 \o m1 \o d \o h2 \o s2 \o m2 \o a :
        b \in BeforeTexts, h1 \in HourTexts, s1 \in MinuteSigns, m1 \in MinuteTexts,
        d \in BetweenTexts, h2 \in HourTexts, s2 \in MinuteSigns, m2 \in MinuteTexts,
        a \in AfterTexts }

OtherTexts ==
    { <<>>, <<" ">>, <<"t", "b", "d">>, <<"1", "6", ":", "1", "0">>,
      <<"1", "6", ":", "5", " ", "-", " ", "1", "7", ":", "4", "0">>,
      <<"1", "1", "6", ":", "1", "0", " ", "-", " ", "1", "7", ":", "4", "0">>,
      <<"1", "6", ":", "1", "0", " ", "-", " ", "1", "7">> }

TimeTexts == RangeTexts \cup OtherTexts

\* the rows of a dates table
DateTexts == { <<"0", "1", ".", "0", "2", ".", "2", "0", "2", "5">>,
               <<"3", "1", ".", "0", "2", ".", "2", "0", "2", "5">> }
RowTimeTexts == { <<"1", "6", ".", "1", "0", " ", "-", " ", "1", "7", ":", "4", "0">>,
                  <<"9", ":", "0", "5", "-", "1", "0", ":", "0", "0">>,
                  <<"t", "b", "d">>,
                  <<>> }
TableRows ==
    { [ tds |-> << <<"M", "o">>, d, z, <<"X">> >>, ort_href |-> NULL ] :
        d \in DateTexts, z \in RowTimeTexts }
    \cup { [ tds |-> << <<"M", "o">>, <<"1", ".", "2", ".", "2", "0", "2", "5">>,
                        <<"9", ".", "0", "5", " ", "-", " ", "1", "0", ".", "0", "0">>,
                        <<>> >>,
             ort_href |-> "ort1" ],
           [ tds |-> << <<"T", "a", "g">>, <<"D", "a", "t", "u", "m">>, <<"Z", "e", "i", "t">> >>,
             ort_href |-> NULL ] }

MaxRows == 2

TimeCalls ==
    [ fn : {"parse_time_range"}, zeit_txt : TimeTexts ]
    \cup [ fn : {"extract_course_dates"}, kursnr : {"k1"}, trs : SeqsUpTo(TableRows, MaxRows) ]

\* parse_time_range(zeit_txt) returns
CallParseTime ==
    /\ call.fn = "parse_time_range"
    /\ ret = Pending
    /\ ret' = [ returned |-> TRUE, value |-> parse_time_range(call.zeit_txt) ]
    /\ UNCHANGED << call, scraper_vars, merge_vars, app_vars >>

\* extract_course_dates(kursnr, zeitraum_href) returns, the page having the
\* table of the call
CallExtractDates ==
    /\ call.fn = "extract_course_dates"
    /\ ret = Pending
    /\ LET r == DateRowsLoop(call.kursnr, call.trs, Len(call.trs))
       IN  ret' = [ returned |-> TRUE, value |-> r.out, printed |-> r.printed ]
    /\ UNCHANGED << call, scraper_vars, merge_vars, app_vars >>

InitTimes ==
    /\ ScraperIdle({BaseSnapshot})
    /\ MergeIdle
    /\ call \in TimeCalls
    /\ ret = Pending
    /\ AppIdle

NextTimes ==
    \/ CallParseTime
    \/ CallExtractDates

SpecTimes == InitTimes /\ [][NextTimes]_vars

\* ------------------------------------------------------------------------
\* db.py: friend requests and friendships
\* ------------------------------------------------------------------------
Users == { "A", "B" }

MaxRequests == 2
MaxAccepts == 2

\* the rows of friend_requests from one user to another
FromTo(table, requester_id, addressee_id) ==
    { r \in table : r.requester_id = requester_id /\ r.addressee_id = addressee_id }

PendingFromTo(table, requester_id, addressee_id) ==
    { r \in FromTo(table, requester_id, addressee_id) : r.status = "pending" }

\* .limit(1) without an order: no row, or any one of the rows
Limit1(rows) == IF rows = {} THEN { <<>> } ELSE { << r >> : r \in rows }

\* insert of a pending request; the table gives the row its id
InsertRequest(table, requester_id, addressee_id) ==
    table \cup { [ id           |-> Cardinality(table) + 1,
                   requester_id |-> requester_id,
                   addressee_id |-> addressee_id,
                   status       |-> "pending" ] }

\* update({"status": status}).eq("id", request_id)
UpdateStatus(table, request_id, status) ==
    { IF r.id = request_id THEN [ r EXCEPT !.status = status ] ELSE r : r \in table }

Friendship(a, b) == [ requester_id |-> a, addressee_id |-> b ]

\* the insert of the two friendship records
InsertFriendships(table, requester_id, addressee_id) ==
    table (+) SetToBag({ Friendship(requester_id, addressee_id) })
          (+) SetToBag({ Friendship(addressee_id, requester_id) })

\* delete().or_(and(requester_id = user, addressee_id = friend),
\*              and(requester_id = friend, addressee_id = user))
DeleteFriendships(table, user_id, friend_id) ==
    [ r \in { x \in DOMAIN table : x \notin { Friendship(user_id, friend_id),
                                              Friendship(friend_id, user_id) } }
        |-> table[r] ]

\* get_friend_status(user_id, other_user_id)
get_friend_status(user_id, other_user_id) ==
    IF \/ BagIn(Friendship(user_id, other_user_id), user_friends)
       \/ BagIn(Friendship(other_user_id, user_id), user_friends)
    THEN "friends"
    ELSE IF PendingFromTo(friend_requests, user_id, other_user_id) # {}
    THEN "request_sent"
    ELSE IF PendingFromTo(friend_requests, other_user_id, user_id) # {}
    THEN "request_received"
    ELSE "none"

\* the call of session s has returned
Returns(s, fn, requester_id, addressee_id, value, had_pending, failed) ==
    /\ done' = [ done EXCEPT ![s] = [ fn           |-> fn,
                                      requester_id |-> requester_id,
                                      addressee_id |-> addressee_id,
                                      value        |-> value,
                                      had_pending  |-> had_pending,
                                      failed       |-> failed ] ]
    /\ sess' = [ sess EXCEPT ![s] = NoCallInProgress ]

NotSocial == << scraper_vars, merge_vars, call_vars, limit_vars >>

\* send_friend_request: the select of the existing request
SendSelect(s) ==
    /\ sess[s] = NoCallInProgress
    /\ Cardinality(friend_requests) < MaxRequests
    /\ \E requester_id \in Users : \E addressee_id \in Users \ {requester_id} :
          \E data \in Limit1(FromTo(friend_requests, requester_id, addressee_id)) :
              sess' = [ sess EXCEPT ![s] =
                          [ pc           |-> "send_selected",
                            requester_id |-> requester_id,
                            addressee_id |-> addressee_id,
                            existing     |-> data,
                            had_pending  |-> PendingFromTo(friend_requests, requester_id,
                                                           addressee_id) # {} ] ]
    /\ UNCHANGED << friend_requests, user_friends, done, accepts, NotSocial >>

\* send_friend_request: from "if existing.data" to the return
SendFinish(s) ==
    /\ sess[s].pc = "send_selected"
    /\ LET c == sess[s]
       IN  IF c.existing # <<>>
           THEN /\ Returns(s, "send_friend_request", c.requester_id, c.addressee_id,
                           IF c.existing[1].status = "pending" THEN "False" ELSE "None",
                           c.had_pending, FALSE)
                /\ UNCHANGED friend_requests
           ELSE /\ friend_requests' = InsertRequest(friend_requests, c.requester_id,
                                                    c.addressee_id)
                /\ Returns(s, "send_friend_request", c.requester_id, c.addressee_id,
                           "True", c.had_pending, FALSE)
    /\ UNCHANGED << user_friends, accepts, NotSocial >>

\* accept_friend_request: the update of the request; the page offers the
\* requests of the cached list of pending requests
AcceptUpdate(s) ==
    /\ sess[s] = NoCallInProgress
    /\ accepts < MaxAccepts
    /\ \E r \in friend_requests :
          /\ friend_requests' = UpdateStatus(friend_requests, r.id, "accepted")
          /\ sess' = [ sess EXCEPT ![s] = [ pc           |-> "accept_updated",
                                            requester_id |-> r.requester_id,
                                            addressee_id |-> r.addressee_id ] ]
    /\ accepts' = accepts + 1
    /\ UNCHANGED << user_friends, done, NotSocial >>

\* accept_friend_request: the insert of the two friendship records
AcceptInsert(s) ==
    /\ sess[s].pc = "accept_updated"
    /\ user_friends' = InsertFriendships(user_friends, sess[s].requester_id,
                                         sess[s].addressee_id)
    /\ Returns(s, "accept_friend_request", sess[s].requester_id, sess[s].addressee_id,
               "True", FALSE, FALSE)
    /\ UNCHANGED << friend_requests, accepts, NotSocial >>

\* reject_friend_request(request_id)
Reject(s) ==
    /\ sess[s] = NoCallInProgress
    /\ \E r \in friend_requests :
          /\ friend_requests' = UpdateStatus(friend_requests, r.id, "rejected")
          /\ Returns(s, "reject_friend_request", r.requester_id, r.addressee_id,
                     "True", FALSE, FALSE)
    /\ UNCHANGED << user_friends, accepts, NotSocial >>

\* unfollow_user(user_id, friend_id)
Unfollow(s) ==
    /\ sess[s] = NoCallInProgress
    /\ \E user_id \in Users : \E friend_id \in Users \ {user_id} :
          /\ user_friends' = DeleteFriendships(user_friends, user_id, friend_id)
          /\ Returns(s, "unfollow_user", user_id, friend_id, "True", FALSE, FALSE)
    /\ UNCHANGED << friend_requests, accepts, NotSocial >>

\* a call to the database raises in the middle of send_friend_request or
\* accept_friend_request: the except branch logs and returns False
CallRaises(s) ==
    /\ sess[s].pc \in { "send_selected", "accept_updated" }
    /\ Returns(s, IF sess[s].pc = "send_selected" THEN "send_friend_request"
                  ELSE "accept_friend_request",
               sess[s].requester_id, sess[s].addressee_id, "False", FALSE, TRUE)
    /\ UNCHANGED << friend_requests, user_friends, accepts, NotSocial >>

\* the first call to the database of a function raises
FirstCallRaises(s) ==
    /\ sess[s] = NoCallInProgress
    /\ \E fn \in { "send_friend_request", "accept_friend_request",
                   "reject_friend_request", "unfollow_user" },
          a \in Users, b \in Users :
          a # b /\ Returns(s, fn, a, b, "False", FALSE, TRUE)
    /\ UNCHANGED << friend_requests, user_friends, accepts, NotSocial >>

\* the calls of the browser sessions S, one database call at a time
SocialStep(S) ==
    \E s \in S :
        \/ SendSelect(s)
        \/ SendFinish(s)
        \/ AcceptUpdate(s)
        \/ AcceptInsert(s)
        \/ Reject(s)
        \/ Unfollow(s)
        \/ CallRaises(s)
        \/ FirstCallRaises(s)

InitSocial == ScraperIdle({BaseSnapshot}) /\ MergeIdle /\ CallIdle /\ AppIdle

\* two browser sessions at the same time
NextSocial ==
    \/ SocialStep(Sessions)
SpecSocial == InitSocial /\ [][NextSocial]_vars

\* one browser session: every call returns before the next one starts
NextSocialSeq ==
    \/ SocialStep({ "s1" })
SpecSocialSeq == InitSocial /\ [][NextSocialSeq]_vars

\* ------------------------------------------------------------------------
\* security.py: rate_limit_check
\* ------------------------------------------------------------------------
MaxTime == 4
MaxChecks == 5
MaxLog == 50

\* the max_actions and time_window the function is called with
MaxActionsArgs == { 0, 1, 2 }
TimeWindowArgs == { 1, 2 }

\* secure_log: one more entry, of which the last 50 are kept
secure_log(entries) == IF entries + 1 > MaxLog THEN MaxLog ELSE entries + 1

MoreThan(actions, max_actions) == Len(actions) > max_actions

\* len(rate_limit_data["actions"]) >= max_actions
LimitExceeded(actions, max_actions) == Len(actions) >= max_actions

\* st.session_state[rate_limit_key] after "if rate_limit_key not in
\* st.session_state"
RateLimitData(key) ==
    IF session_state[key].present THEN session_state[key]
    ELSE [ present |-> TRUE, actions |-> <<>>, last_reset |-> current_time ]

\* current_time - rate_limit_data["last_reset"] > time_window
WindowPassed(data, time_window) == current_time - data.last_reset > time_window

\* rate_limit_check(action, user_identifier, max_actions, time_window)
RateLimitCheck ==
    /\ checks.count < MaxChecks
    /\ \E c \in LimitedCalls, max_actions \in MaxActionsArgs, time_window \in TimeWindowArgs :
          LET key    == rate_limit_key(c[1], c[2])
              before == RateLimitData(key)
              reset  == WindowPassed(before, time_window)
              data   == IF reset
                        THEN [ before EXCEPT !.actions = <<>>, !.last_reset = current_time ]
                        ELSE before
              value  == ~LimitExceeded(data.actions, max_actions)
          IN  /\ session_state' =
                    [ session_state EXCEPT ![key] =
                        IF value THEN [ data EXCEPT !.actions = Append(@, current_time) ]
                        ELSE data ]
              /\ security_log' = IF value THEN security_log ELSE secure_log(security_log)
              /\ checks' =
                    [ count |-> checks.count + 1,
                      last  |-> [ key            |-> key,
                                  max_actions    |-> max_actions,
                                  time_window    |-> time_window,
                                  value          |-> value,
                                  reset          |-> reset,
                                  since_reset    |-> current_time - before.last_reset,
                                  trues_before   |-> checks.trues[key],
                                  actions_before |-> before.actions ],
                      trues |-> [ checks.trues EXCEPT ![key] =
                                    (IF reset THEN 0 ELSE @) + (IF value THEN 1 ELSE 0) ] ]
    /\ UNCHANGED << current_time, scraper_vars, merge_vars, call_vars, social_vars >>

\* time passes
Tick ==
    /\ current_time < MaxTime
    /\ current_time' = current_time + 1
    /\ UNCHANGED << session_state, security_log, checks, scraper_vars, merge_vars,
                    call_vars, social_vars >>

InitLimit == ScraperIdle({BaseSnapshot}) /\ MergeIdle /\ CallIdle /\ AppIdle
NextLimit ==
    \/ RateLimitCheck
    \/ Tick
SpecLimit == InitLimit /\ [][NextLimit]_vars

\* main() from its first line to its return or exception
Pipeline ==
    \/ StartRun
    \/ UpsertOffers
    \/ OfferMetadata
    \/ ExtractCourses
    \/ UpsertCourses
    \/ UpsertTrainers
    \/ DeleteLinks
    \/ InsertLinks
    \/ ExtractDates
    \/ SelectLocations
    \/ SelectCanceled
    \/ UpsertTermine
    \/ LogRun
    \/ Finish

\* The runs over the mixed sites, with every out-of-band writer.
Init == InitIn(MixedSnapshots)
Next ==
    \/ Pipeline
    \/ ExtCancel
    \/ ExtRate
    \/ ExtAddLocation
    \/ SourceChange(MixedSnapshots)
Spec == Init /\ [][Next]_vars

\* The runs over sites that differ in their dates pages only, with the
\* writers of kurs_termine.canceled and unisport_locations.
InitSessions == InitIn(DateSnapshots)
NextSessions ==
    \/ Pipeline
    \/ ExtCancel
    \/ ExtAddLocation
    \/ SourceChange(DateSnapshots)
SpecSessions == InitSessions /\ [][NextSessions]_vars

\* The runs over sites that differ in their course tables only, with the
\* writer of trainer.rating.
InitTrainers == InitIn(CourseSnapshots)
NextTrainers ==
    \/ Pipeline
    \/ ExtRate
    \/ SourceChange(CourseSnapshots)
SpecTrainers == InitTrainers /\ [][NextTrainers]_vars

\* The merge over every choice of the parsed sources; the scraper is idle.
InitMerge == ScraperIdle({BaseSnapshot}) /\ InitLocations /\ CallIdle /\ AppIdle
NextMerge ==
    \/ MergeMarker
    \/ SweepMenu
    \/ PrintReport
SpecMerge == InitMerge /\ [][NextMerge]_vars

\* The runs over sites that repeat a key, with the out-of-band writers of
\* stored rows.
InitKeys == InitIn(KeySnapshots)
NextKeys ==
    \/ Pipeline
    \/ ExtCancel
    \/ ExtRate
    \/ SourceChange(KeySnapshots)
SpecKeys == InitKeys /\ [][NextKeys]_vars

\* The runs on one site, from what an earlier run has stored: a run may raise
\* at any call and the next scheduled run follows.
InitRetry ==
    /\ \E t \in StoredBy(MixedSnapshots) : StorageIs(t)
    /\ NoRunYet(MixedSnapshots)
    /\ MergeIdle
    /\ CallIdle
    /\ AppIdle
NextRetry ==
    \/ Pipeline
SpecRetry == InitRetry /\ [][NextRetry]_vars

\* Two runs on one site whose calls interleave, from what an earlier run has
\* stored.
InitOverlap ==
    /\ \E t \in StoredBy(MixedSnapshots) : StorageIs(t)
    /\ NoRunYet(MixedSnapshots)
    /\ MergeIdle
    /\ CallIdle
    /\ AppIdle
NextOverlap ==
    \/ Pipeline
    \/ Fork
    \/ Switch
SpecOverlap == InitOverlap /\ [][NextOverlap]_vars

\* ------------------------------------------------------------------------
\* Properties of the sync
\* ------------------------------------------------------------------------
BatchKeys == { << all_dates[i].kursnr, all_dates[i].start_time >> : i \in 1..Len(all_dates) }

StoredCanceled(key) ==
    \E r \in kurs_termine : << r.kursnr, r.start_time >> = key /\ r.canceled

\* C1: a session that was stored as canceled when the run started and that the
\* scraped batch of the run describes again is still stored as canceled when the
\* run has completed.
C1_CancellationPreserved ==
    pc = "done" => \A key \in canceled_at_start \cap BatchKeys : StoredCanceled(key)

C1_Witness ==
    /\ pc = "done"
    /\ \E key \in canceled_at_start \cap BatchKeys : StoredCanceled(key)

\* C2: whenever no run is in progress, every session that the out-of-band
\* writer has marked as canceled is stored as canceled, wherever the write fell
\* between the storage calls of a run.
C2_ExternalCancelSurvives ==
    pc \in {"idle", "done"} => \A key \in ext_canceled : StoredCanceled(key)

\* C3: a run that completes directly after a completed run on the same site,
\* with no other writer in between, leaves offers, courses, trainers, links and
\* sessions as the first run left them.
C3_Idempotent ==
    (pc = "done" /\ prev.valid) => Tables = prev.tables

C3_Witness ==
    /\ pc = "done"
    /\ prev.valid
    /\ kurs_termine # {}
    /\ kurs_trainer # EmptyBag
    /\ Tables = prev.tables

\* C4: the location_name of every stored session is NULL or the name of a row
\* of unisport_locations, whatever that table holds.
C4_ReferentialNulling ==
    \A r \in kurs_termine :
        r.location_name = NoText \/ r.location_name \in unisport_locations

\* C5: no step changes or removes a trainer row whose rating was set by
\* somebody else.
C5_RatingPreserved ==
    [][ \A r \in trainer : r.rating = OtherRating => r \in trainer' ]_vars

\* C6: after a completed run the trainers linked to every scraped course are
\* exactly the trainers parsed from the instructor text of that course, with no
\* link left over from earlier runs.
ParsedLinks(kursnr) ==
    { r \in Range(TrainerOccurrences(all_courses)) : r.kursnr = kursnr }

StoredLinks(kursnr) == { r \in BagToSet(kurs_trainer) : r.kursnr = kursnr }

C6_LinksFullyReplaced ==
    pc = "done" =>
        \A i \in 1..Len(all_courses) :
            StoredLinks(all_courses[i].kursnr) = ParsedLinks(all_courses[i].kursnr)

\* C7: a run is never aborted by the failed fetch of the page of one offer or
\* of one course.
C7_FailureIsolation ==
    pc = "aborted" => abort_cause # "fetch"

\* C8 as stated: the number of audit records equals the number of runs that
\* completed their entity writes.
C8_AuditEqualsCompleted ==
    etl_runs = completed

\* C8 as amended: the number of audit records equals the number of runs that
\* completed their entity writes and whose audit insert did not fail; a run
\* that raised has added none.
C8_AuditEqualsLogged ==
    /\ etl_runs = completed - audit_failed
    /\ etl_runs <= completed

C8_Witness ==
    /\ pc = "aborted"
    /\ abort_cause = "storage"
    /\ completed = 1
    /\ etl_runs = 1

\* C9: the step in which the audit insert fails ends the run normally and
\* changes no entity table.
C9_AuditBestEffort ==
    [][ audit_failed' # audit_failed =>
            /\ pc' = "done"
            /\ abort_cause' = abort_cause
            /\ entity_tables' = entity_tables ]_vars

C9_Witness ==
    /\ pc = "done"
    /\ audit_failed > 0
    /\ kurs_termine # {}
    /\ sportkurse # {}


\* C10: when the merge has finished, no menu name that a marker was matched to
\* by fuzzy matching is emitted again as a menu-only location, and no two
\* merged locations have the same name.
C10_LocationUniqueness ==
    mpc = "done" =>
        /\ \A i \in 1..Len(fuzzy_matches) :
               \A j \in 1..Len(menu_only) : menu_only[j] # fuzzy_matches[i][2]
        /\ \A i, j \in 1..Len(merged) : i # j => merged[i].name # merged[j].name

\* ------------------------------------------------------------------------
\* Properties of the location merge
\* ------------------------------------------------------------------------
\* the merged entities that come from a marker: they carry coordinates
FromMarker(e) == e.lat # NULL

\* C11: every merged entity of a marker whose name is a name of the menu
\* carries the link and the id of that menu entry and its list of sports.
C11_MergeUnionsSources ==
    \A i \in 1..Len(merged) : \A j \in 1..Len(menu) :
        (FromMarker(merged[i]) /\ merged[i].name = menu[j].name) =>
            /\ merged[i].ort_href = menu[j].href
            /\ merged[i].spid = menu[j].spid
            /\ "sports" \in DOMAIN merged[i]
            /\ merged[i].sports = menu[j].sports

\* C12: when the location pipeline has finished, unisport_locations holds a
\* row with the name of every merged entity.
C12_LocationSync ==
    mpc = "done" => \A i \in 1..Len(merged) : merged[i].name \in unisport_locations

\* C13: fuzzy_match_name is never called for a marker name that is a name of
\* the menu links, and the merged entity of such a marker carries the link of
\* the entry with that very name, whatever the other entries are.
C13_ExactMatchPriority ==
    /\ \A name \in fuzzy_calls : ~LinkData(menu, name).found
    /\ \A i \in 1..Len(fuzzy_matches) : ~LinkData(menu, fuzzy_matches[i][1]).found
    /\ \A i \in 1..Len(merged) : \A j \in 1..Len(menu) :
           (FromMarker(merged[i]) /\ merged[i].name = menu[j].name) =>
               merged[i].spid = menu[j].spid

\* a marker was matched exactly although another entry of the menu, earlier
\* in the list, has the same normalized name
C13_Witness ==
    /\ mpc = "done"
    /\ exact_matches > 0
    /\ fuzzy_calls = {}
    /\ \E i, j \in 1..Len(menu) :
           /\ i < j
           /\ Lower(menu[i].name) = Lower(menu[j].name)
           /\ \E k \in 1..Len(merged) :
                  FromMarker(merged[k]) /\ merged[k].name = menu[j].name

\* ------------------------------------------------------------------------
\* Properties of fuzzy_match_name
\* ------------------------------------------------------------------------
\* the ratio of the target of the call and its i-th candidate
CallRatio(i) == Ratio(Lower(Strip(call.target)), Lower(Strip(call.candidates[i])))

\* no candidate of the call has a greater ratio than the i-th
IsBest(i) ==
    \A j \in 1..Len(call.candidates) :
        CallRatio(j).num * CallRatio(i).den <= CallRatio(i).num * CallRatio(j).den

\* C14: fuzzy_match_name returns a candidate if and only if the best ratio is
\* at least 0.85 (17/20); at exactly 0.85 it returns one, below it returns None.
C14_ThresholdInclusive ==
    ret.returned =>
        ( ret.value # NoText <=>
            \E i \in 1..Len(call.candidates) :
                CallRatio(i).num * 20 >= 17 * CallRatio(i).den )

\* a call whose best ratio is exactly 0.85 has returned a candidate
C14_Witness ==
    /\ ret.returned
    /\ ret.value # NoText
    /\ \E i \in 1..Len(call.candidates) :
           IsBest(i) /\ CallRatio(i).num * 20 = 17 * CallRatio(i).den

\* a menu name that a marker was resolved to, exactly or by fuzzy matching
Consumed(n) ==
    \/ \E i \in 1..Len(merged) : FromMarker(merged[i]) /\ merged[i].name = n
    \/ \E i \in 1..Len(fuzzy_matches) : fuzzy_matches[i][2] = n

\* C15: when the merge has finished, the entities after the marker entities
\* are exactly the menu names that no marker consumed, once each and in menu
\* order, with lat and lng absent; no consumed name is among them.
C15_SecondarySweep ==
    mpc = "done" =>
        LET unconsumed == SelectSeq(MenuKeys(menu), LAMBDA n : ~Consumed(n))
            primary    == Len(merged) - Len(menu_only)
        IN  /\ menu_only = unconsumed
            /\ \A i \in 1..Len(merged) : FromMarker(merged[i]) <=> i <= primary
            /\ \A k \in 1..Len(menu_only) :
                   /\ merged[primary + k].name = menu_only[k]
                   /\ merged[primary + k].lat = NULL
                   /\ merged[primary + k].lng = NULL

\* ------------------------------------------------------------------------
\* Properties of the stored tables
\* ------------------------------------------------------------------------
\* no two rows of the table agree on the key columns
UniqueBy(table, keys) ==
    \A r1, r2 \in table : KeyOf(r1, keys) = KeyOf(r2, keys) => r1 = r2

\* C16: at every moment no table holds two rows with the same natural key:
\* sportangebote by href, sportkurse by kursnr, kurs_termine by (kursnr,
\* start_time), trainer by name.
C16_NaturalKeysUnique ==
    /\ UniqueBy(sportangebote, {"href"})
    /\ UniqueBy(sportkurse, {"kursnr"})
    /\ UniqueBy(kurs_termine, {"kursnr", "start_time"})
    /\ UniqueBy(trainer, {"name"})

\* a run has written course k1 under offer o2 after an earlier run had stored
\* it, with its trainer, under offer o1
C16_Witness ==
    /\ pc = "done"
    /\ completed > 1
    /\ \E r \in sportkurse : r.kursnr = "k1" /\ r.offer_href = "o2"
    /\ \E r \in trainer : r.name = <<"A">>

\* ------------------------------------------------------------------------
\* Properties of series of runs
\* ------------------------------------------------------------------------
\* what a single complete run on the current site makes of the tables of orig
SingleRun == CompleteRun(orig.tables, unisport_locations, snap)

\* a run that completes without a raised run before it, and with no other
\* writer, leaves what main() as one function computes
StepwiseAgrees ==
    (pc = "done" /\ orig.valid /\ orig.aborts = 0) =>
        (SingleRun.ok /\ Tables = SingleRun.tables)

\* C18: a run that completes after runs on the same site that raised
\* somewhere, with no other writer in between, leaves the tables as a single
\* complete run would have made them from the state before the raised runs.
C18_PartialCompletionSafe ==
    (pc = "done" /\ orig.valid /\ orig.aborts > 0) =>
        (SingleRun.ok /\ Tables = SingleRun.tables)

\* a run has completed after a run that raised, and has replaced the links
\* that were stored before the two
C18_Witness ==
    /\ pc = "done"
    /\ orig.valid
    /\ orig.aborts > 0
    /\ orig.tables.links # EmptyBag
    /\ kurs_trainer # EmptyBag
    /\ kurs_trainer # orig.tables.links

\* C17: when two runs on the same site whose storage calls interleaved have
\* both completed, the tables are as one run alone would have left them.
C17_OverlapSafe ==
    (pc = "done" /\ parked.pc = "done" /\ orig.valid) =>
        (SingleRun.ok /\ Tables = SingleRun.tables)


\* ------------------------------------------------------------------------
\* Properties of what a step removes
\* ------------------------------------------------------------------------
KeysIn(table, keys) == { KeyOf(r, keys) : r \in table }

\* the kursnrs of the courses the run in progress has scraped
ScrapedKursnrs == { all_courses[i].kursnr : i \in 1..Len(all_courses) }

\* the link rows of which the step removes a copy
RemovedLinks ==
    { r \in BagToSet(kurs_trainer) : CopiesIn(r, kurs_trainer') < CopiesIn(r, kurs_trainer) }

\* C19: no step removes a natural key from unisport_locations, sportangebote,
\* sportkurse or trainer, so these key sets only grow; the only rows a step
\* removes are kurs_trainer rows of a course the run in progress has scraped.
C19_StaleRowsPersist ==
    [][ /\ unisport_locations \subseteq unisport_locations'
        /\ KeysIn(sportangebote, {"href"}) \subseteq KeysIn(sportangebote', {"href"})
        /\ KeysIn(sportkurse, {"kursnr"}) \subseteq KeysIn(sportkurse', {"kursnr"})
        /\ KeysIn(trainer, {"name"}) \subseteq KeysIn(trainer', {"name"})
        /\ KeysIn(kurs_termine, {"kursnr", "start_time"})
              \subseteq KeysIn(kurs_termine', {"kursnr", "start_time"})
        /\ RemovedLinks # {} =>
              /\ pc = "delete_links"
              /\ \A r \in RemovedLinks : r.kursnr \in ScrapedKursnrs ]_vars

\* a run on a site that no longer lists offer o1's course k1 has replaced the
\* links of k2 and is done; k1, its trainer link and its session are still
\* stored
C19_Witness ==
    /\ pc = "done"
    /\ completed > 1
    /\ "k1" \notin ScrapedKursnrs
    /\ "k2" \in ScrapedKursnrs
    /\ \E r \in sportkurse : r.kursnr = "k1"
    /\ \E r \in BagToSet(kurs_trainer) : r.kursnr = "k1"
    /\ \E r \in BagToSet(kurs_trainer) : r.kursnr = "k2"
    /\ \E r \in kurs_termine : r.kursnr = "k1"

\* ------------------------------------------------------------------------
\* Properties of the time ranges
\* ------------------------------------------------------------------------
\* the text is two digits, a minute sign, two digits at position i
WrittenTime(t, i, sign) ==
    /\ \A j \in {i, i + 1, i + 3, i + 4} : t[j] \in Digits
    /\ t[i + 2] = sign

\* the text is written as 'HH:MM - HH:MM', 'HH:MM - HH.MM' or 'HH.MM - HH:MM'
WrittenRange(t) ==
    /\ Len(t) = 13
    /\ SubSeq(t, 6, 8) = << " ", "-", " " >>
    /\ \/ WrittenTime(t, 1, ":") /\ WrittenTime(t, 9, ":")
       \/ WrittenTime(t, 1, ":") /\ WrittenTime(t, 9, ".")
       \/ WrittenTime(t, 1, ".") /\ WrittenTime(t, 9, ":")

\* 'HH:MM:00' of the time written at position i
Normalized(t, i) == << t[i], t[i + 1], ":", t[i + 3], t[i + 4], ":", "0", "0" >>

\* the rows of the called table that reach the time parsing, those of them
\* whose time is not parsed, and the others
RowsWithDate == { i \in 1..Len(call.trs) :
                    Len(call.trs[i].tds) >= 4 /\ IsoDate(call.trs[i].tds[2]) # NoText }
RowsDropped == { i \in RowsWithDate :
                   parse_time_range(call.trs[i].tds[3]).start_time = NoText }
RowsKept == RowsWithDate \ RowsDropped

\* the i-th row of the table as the k-th record of out, and as the k-th line
EmittedAs(i, k) ==
    /\ ret.value[k].kursnr = call.kursnr
    /\ ret.value[k].start_time =
          IsoDate(call.trs[i].tds[2]) \o <<"T">>
              \o parse_time_range(call.trs[i].tds[3]).start_time
PrintedAs(i, k) ==
    /\ ret.printed[k].kursnr = call.kursnr
    /\ ret.printed[k].datum_iso = IsoDate(call.trs[i].tds[2])
    /\ ret.printed[k].zeit_txt = call.trs[i].tds[3]

\* the number of elements of S below i, plus one
Rank(S, i) == Cardinality({ j \in S : j <= i })

\* C20: parse_time_range maps every text written as 'HH:MM - HH:MM',
\* 'HH:MM - HH.MM' or 'HH.MM - HH:MM' to the pair of its two times as
\* 'HH:MM:00'; it returns a start time exactly when it returns an end time, and
\* none for a text without a hyphen; a row of the dates table for which it
\* returns no start time gives no record and one printed line with the
\* course, the date and the text, and every other row with a date still gives
\* its record, in the order of the table.
C20_TimeRangeParsing ==
    /\ (call.fn = "parse_time_range" /\ ret.returned) =>
          /\ WrittenRange(call.zeit_txt) =>
                ret.value = [ start_time |-> Normalized(call.zeit_txt, 1),
                              end_time   |-> Normalized(call.zeit_txt, 9) ]
          /\ (ret.value.start_time = NoText) <=> (ret.value.end_time = NoText)
          /\ (\A i \in 1..Len(call.zeit_txt) : call.zeit_txt[i] # "-") =>
                ret.value.start_time = NoText
    /\ (call.fn = "extract_course_dates" /\ ret.returned) =>
          /\ Len(ret.value) = Cardinality(RowsKept)
          /\ Len(ret.printed) = Cardinality(RowsDropped)
          /\ \A i \in RowsKept : EmittedAs(i, Rank(RowsKept, i))
          /\ \A i \in RowsDropped : PrintedAs(i, Rank(RowsDropped, i))

\* a table whose first row has a time that is not a range and whose second row
\* has one: the first was dropped with a printed line, the second is the one
\* record returned
C20_Witness ==
    /\ call.fn = "extract_course_dates"
    /\ ret.returned
    /\ RowsDropped = {1}
    /\ RowsKept = {2}
    /\ call.trs[1].tds[3] = << "t", "b", "d" >>
    /\ Len(ret.printed) = 1
    /\ Len(ret.value) = 1
    /\ ret.value[1].start_time =
          << "2", "0", "2", "5", "-", "0", "2", "-", "0", "1", "T",
             "1", "6", ":", "1", "0", ":", "0", "0" >>

\* ------------------------------------------------------------------------
\* Properties of the rows that are dropped
\* ------------------------------------------------------------------------
\* the rows of the called table that have the four cells of a session
SessionRows == { i \in 1..Len(call.trs) : Len(call.trs[i].tds) >= 4 }

\* C21: every row of a dates table with a date or a time range that cannot be
\* parsed is dropped with a printed line, the other rows are returned: the
\* records returned and the lines printed are together the rows of the table.
C21_UnparsableLogged ==
    (call.fn = "extract_course_dates" /\ ret.returned) =>
        /\ Len(ret.value) = Cardinality(RowsKept)
        /\ Len(ret.value) + Len(ret.printed) = Cardinality(SessionRows)

\* ------------------------------------------------------------------------
\* Properties of the friend requests and friendships
\* ------------------------------------------------------------------------
\* C22: at every moment friend_requests holds at most one row with status
\* 'pending' for any ordered pair (requester, addressee).
C22_OnePendingPerDirection ==
    \A a, b \in Users : Cardinality(PendingFromTo(friend_requests, a, b)) <= 1

\* C23: a call of send_friend_request that found no pending request from the
\* requester to the addressee has inserted one and returned True; one that
\* found a pending request has returned False.
C23_SendCreatesWhenNonePending ==
    \A s \in Sessions :
        (done[s].fn = "send_friend_request" /\ ~done[s].failed /\ sess[s] = NoCallInProgress) =>
            IF done[s].had_pending
            THEN done[s].value = "False"
            ELSE /\ done[s].value = "True"
                 /\ PendingFromTo(friend_requests, done[s].requester_id,
                                  done[s].addressee_id) # {}

\* C24: user_friends holds the row (A, B) exactly when it holds (B, A), each
\* at most once, and after unfollow_user(A, B) has returned
\* get_friend_status(A, B) is not 'friends'.
C24_FriendshipSymmetricSingle ==
    /\ \A a, b \in Users :
          /\ CopiesIn(Friendship(a, b), user_friends) = CopiesIn(Friendship(b, a), user_friends)
          /\ CopiesIn(Friendship(a, b), user_friends) <= 1
    /\ \A s \in Sessions :
          (done[s].fn = "unfollow_user" /\ ~done[s].failed /\ sess[s] = NoCallInProgress) =>
              get_friend_status(done[s].requester_id, done[s].addressee_id) # "friends"

\* ------------------------------------------------------------------------
\* Properties of the rate limit
\* ------------------------------------------------------------------------
\* C30: for every key, the calls that returned True since the key's last reset
\* are at most the max_actions of the last of them; a call made after
\* max_actions calls returned True, and not more than time_window after the last
\* reset, returns False; a call that returns False adds nothing to the
\* recorded actions.
C30_RateLimitBound ==
    checks.last # NoCheck =>
        LET c == checks.last
        IN  /\ c.value => checks.trues[c.key] <= c.max_actions
            /\ (c.trues_before >= c.max_actions /\ c.since_reset <= c.time_window) => ~c.value
            /\ ~c.value =>
                  /\ checks.trues[c.key] = (IF c.reset THEN 0 ELSE c.trues_before)
                  /\ session_state[c.key].actions =
                        (IF c.reset THEN <<>> ELSE c.actions_before)

\* with a limit of two, two calls have returned True since a reset of the
\* window, and the next call, within the window, has returned False
C30_Witness ==
    /\ checks.last # NoCheck
    /\ ~checks.last.value
    /\ checks.last.max_actions = 2
    /\ checks.trues[checks.last.key] = 2
    /\ session_state[checks.last.key].last_reset > 0
    /\ current_time > session_state[checks.last.key].last_reset

\* ------------------------------------------------------------------------
\* Properties of the candidate fuzzy_match_name chooses
\* ------------------------------------------------------------------------
\* the first candidate of the call that no candidate exceeds
FirstBest == CHOOSE i \in 1..Len(call.candidates) :
                 IsBest(i) /\ \A j \in 1..(i - 1) : ~IsBest(j)

\* C25: fuzzy_match_name returns no match for an empty candidate list and
\* when the greatest ratio of the trimmed, lower-cased target with a trimmed,
\* lower-cased candidate is below 0.85; otherwise it returns the first
\* candidate, in candidate order, that has the greatest ratio.
C25_FuzzyCandidateChoice ==
    (call.fn = "fuzzy_match_name" /\ ret.returned) =>
        IF call.candidates = <<>> THEN ret.value = NoText
        ELSE IF CallRatio(FirstBest).num * 20 >= 17 * CallRatio(FirstBest).den
        THEN ret.value = call.candidates[FirstBest]
        ELSE ret.value = NoText

\* two different candidates have the same, greatest ratio, at least 0.85, and
\* the call has returned the first of them
C25_Witness ==
    /\ call.fn = "fuzzy_match_name"
    /\ ret.returned
    /\ Len(call.candidates) = 2
    /\ call.candidates[1] # call.candidates[2]
    /\ IsBest(1)
    /\ IsBest(2)
    /\ ret.value = call.candidates[1]

\* ------------------------------------------------------------------------
\* Properties of the marker entities and of the report
\* ------------------------------------------------------------------------
\* the markers that are the first of their name
FirstOfName == { i \in 1..Len(markers) :
                   \A j \in 1..(i - 1) : markers[j].name # markers[i].name }

\* C26: when the merge has finished, the entities with coordinates are the
\* markers that are the first of their name, in marker order and before every
\* other entity, each with the lat and lng of that first marker, and every
\* marker name is the name of exactly one merged entity.
C26_PrimaryDeduplication ==
    mpc = "done" =>
        /\ Cardinality({ k \in 1..Len(merged) : FromMarker(merged[k]) })
              = Cardinality(FirstOfName)
        /\ \A i \in FirstOfName :
              /\ merged[Rank(FirstOfName, i)].name = markers[i].name
              /\ merged[Rank(FirstOfName, i)].lat = markers[i].lat
              /\ merged[Rank(FirstOfName, i)].lng = markers[i].lng
        /\ \A i \in 1..Len(markers) :
              Cardinality({ k \in 1..Len(merged) : merged[k].name = markers[i].name }) = 1

\* two markers with one name and different coordinates: the merge has
\* finished with one entity of that name, with the coordinates of the first
C26_Witness ==
    /\ mpc = "done"
    /\ Len(markers) = 2
    /\ markers[1].name = markers[2].name
    /\ markers[1].lat # markers[2].lat
    /\ merged # <<>>
    /\ merged[1].lat = markers[1].lat
    /\ \A k \in 2..Len(merged) : merged[k].name # markers[1].name

\* the markers of the merge that are the first of their name and have no menu
\* entry, neither by name nor by fuzzy match
WithoutCounterpart ==
    { i \in FirstOfName :
        /\ ~LinkData(menu, markers[i].name).found
        /\ \A k \in 1..Len(fuzzy_matches) : fuzzy_matches[k][1] # markers[i].name }

\* C27: in the report, exact matches plus fuzzy matches plus the count of
\* locations only in markers is the number of deduplicated markers, the count
\* of locations only in the menu is the number of entities the sweep added,
\* and each missing count is the number of merged entities without that field.
C27_ReportConsistent ==
    mpc = "done" =>
        /\ report.only_markers = Cardinality(WithoutCounterpart)
        /\ report.exact + report.fuzzy + report.only_markers = Cardinality(FirstOfName)
        /\ report.only_menu = Cardinality({ k \in 1..Len(merged) : ~FromMarker(merged[k]) })
        /\ report.missing_coords = Cardinality({ k \in 1..Len(merged) :
                                       merged[k].lat = NULL \/ merged[k].lng = NULL })
        /\ report.missing_link = Cardinality({ k \in 1..Len(merged) :
                                     merged[k].ort_href = NULL })
        /\ report.missing_spid = Cardinality({ k \in 1..Len(merged) : merged[k].spid = NULL })

\* ------------------------------------------------------------------------
\* Properties of the trainers and of the course rows
\* ------------------------------------------------------------------------
\* C28: after a completed run the trainer table holds exactly one row for
\* every trainer name parsed from the instructor texts of the run, and
\* kurs_trainer holds exactly one row for every (course, trainer name) parsed,
\* also when the instructor text of the course lists the name twice.
C28_TrainerDerivation ==
    pc = "done" =>
        \A i \in 1..Len(all_courses) :
            \A r \in ParsedLinks(all_courses[i].kursnr) :
                /\ Cardinality({ t \in trainer : t.name = r.trainer_name }) = 1
                /\ CopiesIn(r, kurs_trainer) = 1

\* the rows of the sportkurse upsert of the run in progress
CoursePayload == courses_for_db(all_courses)

\* the rows of the course tables of the site that have no course number
RowsWithoutNumber ==
    { r \in UNION { Range(snap.courses[h]) : h \in Hrefs } : r.kursnr = "" }

\* C29: every row of the sportkurse upsert has the persisted keys only,
\* neither the display name of the offer nor the instructor text; a row of a
\* course table without a course number gives no course of the run, and no
\* stored course, session or link.
C29_NoTransientFields ==
    /\ pc = "upsert_courses" =>
          \A i \in 1..Len(CoursePayload) :
              DOMAIN CoursePayload[i] = { "offer_href", "kursnr", "zeitraum_href" }
    /\ \A i \in 1..Len(all_courses) : all_courses[i].kursnr # ""
    /\ \A r \in sportkurse : r.kursnr # ""
    /\ \A r \in kurs_termine : r.kursnr # ""
    /\ \A r \in BagToSet(kurs_trainer) : r.kursnr # ""

\* a run on a site whose second course table has a row without a course
\* number before the row of course k2 is done: k2 is stored
C29_Witness ==
    /\ pc = "done"
    /\ RowsWithoutNumber # {}
    /\ Len(all_courses) = 2
    /\ \E r \in sportkurse : r.kursnr = "k2"

====
